---- MODULE Spec2Model ----
(***************************************************************************)
(* A model of the SQL generation engine of nl2sqldocker2                   *)
(* (src/core/sql_generator.py): the SQLGenerator object, its setters, the  *)
(* steps of generate, and the text functions _extract_sql,                 *)
(* _extract_explanation, _format_sql and _validate_sql; and of its schema  *)
(* analyzer (src/core?schema_analyzer.py): set_connection and the steps of *)
(* analyze.                                                                *)
(*                                                                         *)
(* Text is a sequence of characters, each character a one-character        *)
(* string; the backquote is written BT. The regular expressions of the     *)
(* source are operators over such sequences.                               *)
(***************************************************************************)
EXTENDS Naturals, Integers, Sequences, FiniteSets, TLC

\* ------------------------------------------------------------------------
\* Characters and elementary string operations (Python str / re)
\* ------------------------------------------------------------------------

BT == "bt"

Min(S) == CHOOSE x \in S : \A y \in S : x <= y

Max(S) == CHOOSE x \in S : \A y \in S : x >= y

Range(f) == {f[i] : i \in DOMAIN f}

LowerChars ==
  <<"a","b","c","d","e","f","g","h","i","j","k","l","m","n","o","p","q","r",
    "s","t","u","v","w","x","y","z","ó","é","á">>

UpperChars ==
  <<"A","B","C","D","E","F","G","H","I","J","K","L","M","N","O","P","Q","R",
    "S","T","U","V","W","X","Y","Z","Ó","É","Á">>

DigitChars == {"0","1","2","3","4","5","6","7","8","9"}

\* str.upper(), and the case folding of re.IGNORECASE, one character at a time
UpperMap ==
  [c \in Range(LowerChars) |->
     UpperChars[CHOOSE i \in DOMAIN LowerChars : LowerChars[i] = c]]

ToUpper(c) == IF c \in DOMAIN UpperMap THEN UpperMap[c] ELSE c

\* a sequence given as a function, as the tuple of its values
AsSeq(f) == SubSeq(f, 1, Len(f))

upper(s) == AsSeq([i \in 1..Len(s) |-> ToUpper(s[i])])

\* \s of re, and the characters str.strip() removes
WsChars == {" ", "\n", "\t"}

IsWs(c) == c \in WsChars

\* \w of re (str patterns: Unicode letters, digits, underscore)
WordChars == Range(LowerChars) \cup Range(UpperChars) \cup DigitChars \cup {"_"}

IsWord(c) == c \in WordChars

\* the class [a-zA-Z0-9_]
IdentChars ==
  {LowerChars[i] : i \in 1..26} \cup {UpperChars[i] : i \in 1..26}
    \cup DigitChars \cup {"_"}

IsIdentChar(c) == c \in IdentChars

\* str.strip()
strip(s) ==
  LET nz == {i \in 1..Len(s) : ~IsWs(s[i])}
  IN  IF nz = {} THEN <<>> ELSE SubSeq(s, Min(nz), Max(nz))

\* the literal p occurs in s at index i
MatchAt(s, p, i) ==
  /\ i >= 1
  /\ i + Len(p) - 1 <= Len(s)
  /\ \A k \in 1..Len(p) : s[i + k - 1] = p[k]

\* the same, ignoring letter case (re.IGNORECASE)
MatchAtCI(s, p, i) ==
  /\ i >= 1
  /\ i + Len(p) - 1 <= Len(s)
  /\ \A k \in 1..Len(p) : ToUpper(s[i + k - 1]) = ToUpper(p[k])

\* index of the first occurrence of p in s at or after from; 0 when none
find(s, p, from) ==
  LET H == {i \in from..(Len(s) - Len(p) + 1) : MatchAt(s, p, i)}
  IN  IF H = {} THEN 0 ELSE Min(H)

\* "p in s"
Contains(s, p) == find(s, p, 1) # 0

\* str.count(c) for a one-character c
count(s, c) == Cardinality({i \in 1..Len(s) : s[i] = c})

\* str.replace(old, new): every non-overlapping occurrence, left to right
RECURSIVE replace(_, _, _)
replace(s, old, new) ==
  LET i == find(s, old, 1)
  IN  IF i = 0 THEN s
      ELSE SubSeq(s, 1, i - 1) \o new
             \o replace(SubSeq(s, i + Len(old), Len(s)), old, new)

\* where a greedy \s* that starts at index k ends: the first index >= k
\* that holds no whitespace (Len(s) + 1 when the rest is whitespace)
SkipWs(s, k) ==
  LET nz == {i \in k..Len(s) : ~IsWs(s[i])}
  IN  IF nz = {} THEN Len(s) + 1 ELSE Min(nz)

\* \b of re at the gap before index i (between s[i-1] and s[i])
WordBoundary(s, i) ==
  LET before == i - 1 >= 1 /\ i - 1 <= Len(s) /\ IsWord(s[i - 1])
      after  == i >= 1 /\ i <= Len(s) /\ IsWord(s[i])
  IN  before # after

\* ------------------------------------------------------------------------
\* Keywords and labels of the source, as character sequences
\* ------------------------------------------------------------------------

kw_SELECT == <<"S","E","L","E","C","T">>
kw_FROM == <<"F","R","O","M">>
kw_JOIN == <<"J","O","I","N">>

Fence == <<BT,BT,BT>>
FenceSql == <<BT,BT,BT,"s","q","l">>
LabelSQL == <<"S","Q","L",":">>
LabelSQLQuery == <<"S","Q","L"," ","Q","u","e","r","y",":">>
Semicolon == <<";">>
Dot == <<".">>

\* what a strategy yields: no match, or the text it captured
NoMatch == [ok |-> FALSE, val |-> <<>>]

Matched(v) == [ok |-> TRUE, val |-> v]

\* ------------------------------------------------------------------------
\* _extract_sql
\* ------------------------------------------------------------------------

\* the alternation (SELECT|INSERT|UPDATE|DELETE|CREATE|ALTER|DROP|BEGIN|WITH)
SqlStartKeywords ==
  {kw_SELECT,
   <<"I","N","S","E","R","T">>,
   <<"U","P","D","A","T","E">>,
   <<"D","E","L","E","T","E">>,
   <<"C","R","E","A","T","E">>,
   <<"A","L","T","E","R">>,
   <<"D","R","O","P">>,
   <<"B","E","G","I","N">>,
   <<"W","I","T","H">>}

\* index just after the keyword of the alternation that starts at k; 0 if none
KeywordEnd(s, k) ==
  LET K == {kw \in SqlStartKeywords : MatchAt(s, kw, k)}
  IN  IF K = {} THEN 0 ELSE k + Len(CHOOSE kw \in K : TRUE)

\* r"```sql\s*(.*?)\s*```", group 1
sql_marker_1(response) ==
  LET i == find(response, FenceSql, 1)
      j == IF i = 0 THEN 0 ELSE find(response, Fence, i + Len(FenceSql))
  IN  IF j = 0 THEN NoMatch
      ELSE Matched(strip(SubSeq(response, i + Len(FenceSql), j - 1)))

\* r"```\s*(SELECT|...|WITH).*?```", group 0 with "SQL:" removed, stripped
sql_marker_2(response) ==
  LET C == {i \in 1..Len(response) :
              /\ MatchAt(response, Fence, i)
              /\ LET e == KeywordEnd(response, SkipWs(response, i + 3))
                 IN  e # 0 /\ find(response, Fence, e) # 0}
  IN  IF C = {} THEN NoMatch
      ELSE LET i == Min(C)
               e == KeywordEnd(response, SkipWs(response, i + 3))
               j == find(response, Fence, e)
           IN  Matched(strip(replace(SubSeq(response, i, j + 2), LabelSQL, <<>>)))

\* label \s* ``` \s* (.*?) \s* ```, group 1: the patterns
\* r"SQL:\s*```\s*(.*?)\s*```" and r"SQL Query:\s*```\s*(.*?)\s*```"
LabelledFence(response, label) ==
  LET C == {i \in 1..Len(response) :
              /\ MatchAt(response, label, i)
              /\ LET k == SkipWs(response, i + Len(label))
                 IN  MatchAt(response, Fence, k)
                       /\ find(response, Fence, k + 3) # 0}
  IN  IF C = {} THEN NoMatch
      ELSE LET i == Min(C)
               k == SkipWs(response, i + Len(label))
               j == find(response, Fence, k + 3)
           IN  Matched(strip(SubSeq(response, k + 3, j - 1)))

sql_marker_3(response) == LabelledFence(response, LabelSQL)

sql_marker_4(response) == LabelledFence(response, LabelSQLQuery)

\* r"SQL:\s*(SELECT|...|WITH).*?;", group 0 with "SQL:" removed, stripped
sql_marker_5(response) ==
  LET C == {i \in 1..Len(response) :
              /\ MatchAt(response, LabelSQL, i)
              /\ LET e == KeywordEnd(response, SkipWs(response, i + 4))
                 IN  e # 0 /\ find(response, Semicolon, e) # 0}
  IN  IF C = {} THEN NoMatch
      ELSE LET i == Min(C)
               e == KeywordEnd(response, SkipWs(response, i + 4))
               j == find(response, Semicolon, e)
           IN  Matched(strip(replace(SubSeq(response, i, j), LabelSQL, <<>>)))

sql_commands ==
  <<kw_SELECT,
    <<"I","N","S","E","R","T"," ","I","N","T","O">>,
    <<"U","P","D","A","T","E">>,
    <<"D","E","L","E","T","E"," ","F","R","O","M">>,
    <<"C","R","E","A","T","E"," ","T","A","B","L","E">>,
    <<"A","L","T","E","R"," ","T","A","B","L","E">>,
    <<"D","R","O","P"," ","T","A","B","L","E">>,
    <<"B","E","G","I","N"," ","T","R","A","N","S","A","C","T","I","O","N">>>>

\* where "$" (no re.MULTILINE) matches in s: at the end, and before a final "\n"
AtDollar(s, p) ==
  \/ p = Len(s) + 1
  \/ p = Len(s) /\ s[p] = "\n"

\* the command loop: the first command of the list that occurs in the
\* response, f"({command}.*?)(\.|$)", group 1
sql_command_search(response) ==
  LET present == {n \in DOMAIN sql_commands : Contains(response, sql_commands[n])}
  IN  IF present = {} THEN NoMatch
      ELSE LET command == sql_commands[Min(present)]
               i == find(response, command, 1)
               stop == Min({p \in (i + Len(command))..(Len(response) + 1) :
                              AtDollar(response, p) \/ response[p] = "."})
           IN  Matched(SubSeq(response, i, stop - 1))

sql_markers(response) ==
  <<sql_marker_1(response), sql_marker_2(response), sql_marker_3(response),
    sql_marker_4(response), sql_marker_5(response)>>

\* none of the patterns and none of the bare commands is found in response
NoStrategyMatches(response) ==
  /\ \A n \in DOMAIN sql_markers(response) : ~sql_markers(response)[n].ok
  /\ ~sql_command_search(response).ok

\* a variant of _extract_sql that hands back the whole response when nothing
\* is found
ExtractOrWholeText(response) ==
  LET m == sql_markers(response)
      hit == {n \in DOMAIN m : m[n].ok}
  IN  IF hit # {} THEN strip(m[Min(hit)].val)
      ELSE LET c == sql_command_search(response)
           IN  IF c.ok THEN strip(c.val) ELSE strip(response)

\* the pattern that matches and comes last in the list wins
ExtractLastPattern(response) ==
  LET m == sql_markers(response)
      hit == {n \in DOMAIN m : m[n].ok}
  IN  IF hit # {} THEN strip(m[Max(hit)].val)
      ELSE LET c == sql_command_search(response)
           IN  IF c.ok THEN strip(c.val) ELSE <<>>

_extract_sql(response) ==
  LET m == sql_markers(response)
      hit == {n \in DOMAIN m : m[n].ok}
  IN  IF hit # {} THEN strip(m[Min(hit)].val)
      ELSE LET c == sql_command_search(response)
           IN  IF c.ok THEN strip(c.val) ELSE <<>>

\* ------------------------------------------------------------------------
\* _extract_explanation
\* ------------------------------------------------------------------------

explanation_markers ==
  <<<<"E","x","p","l","i","c","a","c","i","ó","n",":">>,
    <<"E","x","p","l","a","n","a","t","i","o","n",":">>,
    <<"E","s","t","a"," ","c","o","n","s","u","l","t","a",":">>,
    <<"T","h","i","s"," ","q","u","e","r","y",":">>>>

\* the marker's text up to the end of the response, fenced blocks included
ExplanationToEnd(response, marker) ==
  LET i == find(response, marker, 1)
  IN  IF i = 0 THEN NoMatch
      ELSE Matched(SubSeq(response, i + Len(marker), Len(response)))

\* marker + r"(.*?)(?:```|$)", group 1
explanation_marker(response, marker) ==
  LET i == find(response, marker, 1)
  IN  IF i = 0 THEN NoMatch
      ELSE LET q == i + Len(marker)
               stop == Min({p \in q..(Len(response) + 1) :
                              MatchAt(response, Fence, p) \/ AtDollar(response, p)})
           IN  Matched(SubSeq(response, q, stop - 1))

\* re.sub(r"```.*?```", "", s, flags=re.DOTALL)
RECURSIVE RemoveFenced(_)
RemoveFenced(s) ==
  LET i == find(s, Fence, 1)
      j == IF i = 0 THEN 0 ELSE find(s, Fence, i + 3)
  IN  IF j = 0 THEN s
      ELSE SubSeq(s, 1, i - 1) \o RemoveFenced(SubSeq(s, j + 3, Len(s)))

_extract_explanation(response) ==
  LET m == [n \in DOMAIN explanation_markers |->
              explanation_marker(response, explanation_markers[n])]
      hit == {n \in DOMAIN m : m[n].ok}
      sql == _extract_sql(response)
  IN  IF hit # {} THEN strip(m[Min(hit)].val)
      ELSE IF sql # <<>> THEN strip(replace(RemoveFenced(response), sql, <<>>))
      ELSE strip(response)

\* ------------------------------------------------------------------------
\* _format_sql
\* ------------------------------------------------------------------------

keywords ==
  <<kw_SELECT,
    kw_FROM,
    <<"W","H","E","R","E">>,
    <<"G","R","O","U","P"," ","B","Y">>,
    <<"O","R","D","E","R"," ","B","Y">>,
    <<"H","A","V","I","N","G">>,
    kw_JOIN,
    <<"L","E","F","T"," ","J","O","I","N">>,
    <<"R","I","G","H","T"," ","J","O","I","N">>,
    <<"I","N","N","E","R"," ","J","O","I","N">>,
    <<"O","U","T","E","R"," ","J","O","I","N">>,
    <<"L","I","M","I","T">>,
    <<"O","F","F","S","E","T">>,
    <<"I","N","S","E","R","T"," ","I","N","T","O">>,
    <<"V","A","L","U","E","S">>,
    <<"U","P","D","A","T","E">>,
    <<"S","E","T">>,
    <<"D","E","L","E","T","E"," ","F","R","O","M">>,
    <<"C","R","E","A","T","E"," ","T","A","B","L","E">>,
    <<"A","L","T","E","R"," ","T","A","B","L","E">>,
    <<"D","R","O","P"," ","T","A","B","L","E">>,
    <<"A","N","D">>,
    <<"O","R">>,
    <<"N","O","T">>,
    <<"I","N">>,
    <<"L","I","K","E">>,
    <<"B","E","T","W","E","E","N">>,
    <<"I","S"," ","N","U","L","L">>,
    <<"I","S"," ","N","O","T"," ","N","U","L","L">>>>

newline_after ==
  <<kw_SELECT,
    kw_FROM,
    <<"W","H","E","R","E">>,
    <<"G","R","O","U","P"," ","B","Y">>,
    <<"O","R","D","E","R"," ","B","Y">>,
    <<"H","A","V","I","N","G">>,
    kw_JOIN,
    <<"L","E","F","T"," ","J","O","I","N">>,
    <<"R","I","G","H","T"," ","J","O","I","N">>,
    <<"I","N","N","E","R"," ","J","O","I","N">>,
    <<"O","U","T","E","R"," ","J","O","I","N">>,
    <<"L","I","M","I","T">>,
    <<"I","N","S","E","R","T"," ","I","N","T","O">>,
    <<"V","A","L","U","E","S">>,
    <<"U","P","D","A","T","E">>,
    <<"S","E","T">>,
    <<"D","E","L","E","T","E"," ","F","R","O","M">>>>

Indent == <<" "," "," "," ">>

\* r'\b' + keyword + r'\b' matches at index i (ci: with re.IGNORECASE)
MatchWord(s, kw, i, ci) ==
  /\ IF ci THEN MatchAtCI(s, kw, i) ELSE MatchAt(s, kw, i)
  /\ WordBoundary(s, i)
  /\ WordBoundary(s, i + Len(kw))

\* index of the first match of r'\bkeyword\b' at or after from; 0 when none
NextWord(s, kw, from, ci) ==
  LET H == {i \in from..(Len(s) - Len(kw) + 1) : MatchWord(s, kw, i, ci)}
  IN  IF H = {} THEN 0 ELSE Min(H)

\* re.sub(r'\bkeyword\b', repl, s): the part of the result from index from on
RECURSIVE SubWord(_, _, _, _, _)
SubWord(s, kw, repl, ci, from) ==
  LET i == NextWord(s, kw, from, ci)
  IN  IF i = 0 THEN SubSeq(s, from, Len(s))
      ELSE SubSeq(s, from, i - 1) \o repl \o SubWord(s, kw, repl, ci, i + Len(kw))

\* re.sub(r'\bkeyword\b', keyword, s, flags=re.IGNORECASE)
UpperKeyword(s, kw) == SubWord(s, kw, kw, TRUE, 1)

\* the loop over keywords; t is computed before the next pass starts
RECURSIVE UpperKeywords(_, _)
UpperKeywords(s, n) ==
  IF n > Len(keywords) THEN s
  ELSE LET t == UpperKeyword(s, keywords[n])
       IN  IF Len(t) >= 0 THEN UpperKeywords(t, n + 1) ELSE t

\* re.sub(r'\bkeyword\b', "\n" + keyword, s)
NewlineBefore(s, kw) == SubWord(s, kw, <<"\n">> \o kw, FALSE, 1)

\* the loop over newline_after; t is computed before the next pass starts
RECURSIVE NewlineKeywords(_, _)
NewlineKeywords(s, n) ==
  IF n > Len(newline_after) THEN s
  ELSE LET t == NewlineBefore(s, newline_after[n])
       IN  IF Len(t) >= 0 THEN NewlineKeywords(t, n + 1) ELSE t

\* str.split('\n')
RECURSIVE split_lines(_)
split_lines(s) ==
  LET i == find(s, <<"\n">>, 1)
  IN  IF i = 0 THEN <<s>>
      ELSE <<SubSeq(s, 1, i - 1)>> \o split_lines(SubSeq(s, i + 1, Len(s)))

\* "\n".join(lines)
RECURSIVE join_lines(_)
join_lines(lines) ==
  IF Len(lines) = 0 THEN <<>>
  ELSE IF Len(lines) = 1 THEN lines[1]
  ELSE lines[1] \o <<"\n">> \o join_lines(Tail(lines))

IndentLines(lines) ==
  AsSeq([i \in 1..Len(lines) |->
           IF i = 1 THEN lines[1] ELSE Indent \o strip(lines[i])])

_format_sql(sql) ==
  LET formatted == NewlineKeywords(UpperKeywords(strip(sql), 1), 1)
  IN  strip(join_lines(IndentLines(split_lines(formatted))))

\* ------------------------------------------------------------------------
\* Schemas, and _validate_sql
\* ------------------------------------------------------------------------

\* A schema value: None (kind "none"), a dict with the given top-level keys
\* whose "tables" entry maps the given table names (kind "dict"), or some
\* other object (kind "other").
SchemaValue(kind, keys, tables) == [kind |-> kind, keys |-> keys, tables |-> tables]

None == SchemaValue("none", {}, {})

\* bool(schema): None and the empty dict are false
Truthy(schema) ==
  \/ schema.kind = "other"
  \/ schema.kind = "dict" /\ schema.keys # {}

\* one entry of validation["errors"]: the message and the name it ends with
Error(text, name) == [text |-> text, name |-> name]

ErrParens == Error("Paréntesis no balanceados", <<>>)
ErrFrom == Error("Falta palabra clave requerida: ", kw_FROM)
ErrSingle == Error("Comillas simples no balanceadas", <<>>)
ErrDouble == Error("Comillas dobles no balanceadas", <<>>)
ErrTable(name) == Error("Tabla no encontrada en el esquema: ", name)

\* first index >= k that holds no character of [a-zA-Z0-9_]
IdentEnd(s, k) ==
  LET nz == {i \in k..Len(s) : ~IsIdentChar(s[i])}
  IN  IF nz = {} THEN Len(s) + 1 ELSE Min(nz)

\* a variant of the table pattern without its JOIN alternative
TableNameStartFromOnly(s, i) ==
  IF WordBoundary(s, i) /\ MatchAtCI(s, kw_FROM, i)
  THEN LET k == SkipWs(s, i + 4)
       IN  IF k > i + 4 /\ k <= Len(s) /\ IsIdentChar(s[k]) THEN k ELSE 0
  ELSE 0

\* r'\bFROM\s+([a-zA-Z0-9_]+)|\bJOIN\s+([a-zA-Z0-9_]+)' with re.IGNORECASE:
\* where the table name of a match that starts at i begins; 0 when no match
TableNameStart(s, i) ==
  IF /\ WordBoundary(s, i)
     /\ MatchAtCI(s, kw_FROM, i) \/ MatchAtCI(s, kw_JOIN, i)
  THEN LET k == SkipWs(s, i + 4)
       IN  IF k > i + 4 /\ k <= Len(s) /\ IsIdentChar(s[k]) THEN k ELSE 0
  ELSE 0

\* re.finditer: the table names of the successive non-overlapping matches
RECURSIVE table_matches(_, _)
table_matches(s, i) ==
  IF i > Len(s) THEN <<>>
  ELSE LET k == TableNameStart(s, i)
       IN  IF k = 0 THEN table_matches(s, i + 1)
           ELSE <<SubSeq(s, k, IdentEnd(s, k) - 1)>>
                  \o table_matches(s, IdentEnd(s, k))

RECURSIVE TableErrors(_, _)
TableErrors(names, schema_tables) ==
  IF names = <<>> THEN <<>>
  ELSE (IF Head(names) \notin schema_tables THEN <<ErrTable(Head(names))>> ELSE <<>>)
         \o TableErrors(Tail(names), schema_tables)

\* _validate_sql raises KeyError/TypeError at self.schema["tables"]
ValidateRaises(schema) ==
  Truthy(schema) /\ ~(schema.kind = "dict" /\ "tables" \in schema.keys)

ValidationErrors(sql, schema) ==
  (IF count(sql, "(") # count(sql, ")") THEN <<ErrParens>> ELSE <<>>)
  \o (IF MatchAt(upper(strip(sql)), kw_SELECT, 1) /\ ~Contains(upper(sql), kw_FROM)
      THEN <<ErrFrom>> ELSE <<>>)
  \o (IF count(sql, "'") % 2 # 0 THEN <<ErrSingle>> ELSE <<>>)
  \o (IF count(sql, "\"") % 2 # 0 THEN <<ErrDouble>> ELSE <<>>)
  \o (IF Truthy(schema) THEN TableErrors(table_matches(sql, 1), schema.tables)
      ELSE <<>>)

_validate_sql(sql, schema) ==
  LET errors == ValidationErrors(sql, schema)
  IN  [valid |-> errors = <<>>, errors |-> errors]

\* ------------------------------------------------------------------------
\* Values held and exchanged by SQLGenerator
\* ------------------------------------------------------------------------

\* a sequence of at most one element stands for an optional value
Some(v) == <<v>>

\* an exception: the name of its type and str(e), in parts
Exc(kind, msg) == [kind |-> kind, msg |-> msg]

NoExc == Exc("none", <<>>)

\* part occurs in message msg
InMessage(msg, part) ==
  \E i \in 1..Len(msg) : SubSeq(msg, i, i + Len(part) - 1) = part

\* a fallible computation's outcome
Ok(v) == [ok |-> TRUE, val |-> Some(v), exc |-> NoExc]

Raised(e) == [ok |-> FALSE, val |-> <<>>, exc |-> e]

\* A provider: id 0 is None; generate says whether the object has a
\* callable generate attribute.
ProviderValue(id, generate) == [id |-> id, generate |-> generate]

NoProvider == ProviderValue(0, FALSE)

ProviderValues ==
  {NoProvider, ProviderValue(1, TRUE), ProviderValue(2, TRUE), ProviderValue(3, FALSE)}

\* bool(provider)
ProviderTruthy(p) == p.id # 0

t_orders == <<"o","r","d","e","r","s">>
t_users == <<"u","s","e","r","s">>

SchemaKeys == {"tables", "relationships"}

ValidSchema1 == SchemaValue("dict", SchemaKeys, {t_orders})
ValidSchema2 == SchemaValue("dict", SchemaKeys, {t_orders, t_users})
EmptyDict == SchemaValue("dict", {}, {})
TablesOnly == SchemaValue("dict", {"tables"}, {t_orders})
NoTables == SchemaValue("dict", SchemaKeys, {})
NotADict == SchemaValue("other", {}, {})

\* the arguments tried with set_schema
SchemaValues ==
  {None, EmptyDict, ValidSchema1, ValidSchema2, TablesOnly, NoTables, NotADict}

\* the schemas the constructor is given
InitSchemas == {None, EmptyDict, ValidSchema1, TablesOnly}

\* the providers the constructor is given
InitProviders == {NoProvider, ProviderValue(1, TRUE), ProviderValue(3, FALSE)}

\* A prompt template is a sequence of pieces: literal text or a placeholder.
DefaultTemplate == <<"# Tarea", "{schema}", "{query}", "{examples}">>

TemplateValues ==
  {<<"{query}", "{schema}">>, <<"{schema}">>, <<"{query}">>, <<"texto">>,
   <<"{query}", "{schema}", "{foo}">>}

\* "placeholder in template"
InTemplate(template, placeholder) ==
  \E i \in 1..Len(template) : template[i] = placeholder

\* the keyword arguments of prompt_template.format(...)
FormatKeys == {"{query}", "{schema}", "{examples}"}

IsPlaceholder(piece) == piece \in FormatKeys \cup {"{foo}"}

\* generate's options argument: a mapping from some option names to values
EmptyOptions == [k \in {} |-> TRUE]

OptionValues ==
  {EmptyOptions, [validate_sql |-> FALSE], [validate_sql |-> TRUE],
   [format_sql |-> FALSE], [include_explanation |-> FALSE], [timeout |-> 5]}

\* the default of the timeout option
DefaultTimeout == 30

\* the default, whatever the options say
GetDefault(options, key, default) == default

\* options.get(key, default)
Get(options, key, default) ==
  IF key \in DOMAIN options THEN options[key] ELSE default

QueryValues == {"q1", "q2"}

\* What provider.generate returns: None (kind "none"), a dict with the given
\* keys (kind "dict"), or another object (kind "str"). text is the value
\* under "text"; text_is_str says whether that value is a str.
ResponseValue(kind, keys, text_is_str, text) ==
  [kind |-> kind, keys |-> keys, text_is_str |-> text_is_str, text |-> text]

RespNone == ResponseValue("none", {}, FALSE, <<>>)
RespNotDict == ResponseValue("str", {}, FALSE, <<>>)
RespEmptyDict == ResponseValue("dict", {}, FALSE, <<>>)
RespNoText == ResponseValue("dict", {"model"}, FALSE, <<>>)
RespTextNotStr == ResponseValue("dict", {"text"}, FALSE, <<>>)
RespText(t) == ResponseValue("dict", {"text"}, TRUE, t)

TextFenced ==
  <<BT,BT,BT,"s","q","l","\n","S","E","L","E","C","T"," ","i","d"," ","F","R","O","M"," ","u","s","e","r","s",";","\n",BT,BT,BT,"\n","E","x","p","l","i","c","a","c","i","ó","n",":"," ","f","i","l","t","r","a"," ","u","s","u","a","r","i","o","s">>
TextBare == <<"S","E","L","E","C","T"," ","*"," ","F","R","O","M"," ","g","h","o","s","t","s">>
TextNoSql == <<"N","o"," ","p","u","e","d","o">>
TextEmptyFence == <<BT,BT,BT,"s","q","l","\n",BT,BT,BT>>

ResponseTexts == {TextFenced, TextBare, TextNoSql, TextEmptyFence}

\* What happens when provider.generate is called: it returns a value or raises.
Returns(v) == [raises |-> FALSE, value |-> v, exc |-> NoExc]

Raises(e) == [raises |-> TRUE, value |-> RespNone, exc |-> e]

\* the exceptions tried, all of classes that derive from Exception
ProviderFailures ==
  {Exc("ProviderError", <<"quota exceeded">>),
   Exc("TimeoutError", <<"timed out">>),
   Exc("ValueError", <<"bad prompt">>)}

ProviderOutcomes ==
  {Returns(RespText(t)) : t \in ResponseTexts}
    \cup {Returns(RespNone), Returns(RespNotDict), Returns(RespEmptyDict),
          Returns(RespNoText), Returns(RespTextNotStr)}
    \cup {Raises(e) : e \in ProviderFailures}

MaxElapsed == 2

\* ------------------------------------------------------------------------
\* The pieces of generate
\* ------------------------------------------------------------------------

\* set_provider's test: hasattr(provider, 'generate') and callable(...)
ProviderAccepted(p) == p.generate

\* a variant of set_schema's tests without the test for tables
SchemaAcceptedAnyTables(s) ==
  /\ s.kind = "dict"
  /\ \A key \in SchemaKeys : key \in s.keys

\* set_schema's tests
SchemaAccepted(s) ==
  /\ s.kind = "dict"
  /\ \A key \in SchemaKeys : key \in s.keys
  /\ s.tables # {}

\* a variant of set_prompt_template's test that looks for {query} alone
TemplateAcceptedQueryOnly(template) == InTemplate(template, "{query}")

\* set_prompt_template's test
TemplateAccepted(template) ==
  \A placeholder \in {"{query}", "{schema}"} : InTemplate(template, placeholder)

\* a variant of the checks at the head of generate without the schema check
EntryErrorProviderOnly(p, s) ==
  IF ~ProviderTruthy(p)
  THEN Exc("ProviderError", <<"No se ha establecido un proveedor de IA">>)
  ELSE NoExc

\* the checks at the head of generate: the exception raised, or NoExc
EntryError(p, s) ==
  IF ~ProviderTruthy(p)
  THEN Exc("ProviderError", <<"No se ha establecido un proveedor de IA">>)
  ELSE IF ~Truthy(s)
  THEN Exc("SchemaError", <<"No se ha establecido un esquema de base de datos">>)
  ELSE NoExc

\* _get_schema_summary: subscripting the schema fails on a missing key
_get_schema_summary(s) ==
  IF s.kind # "dict" THEN Raised(Exc("TypeError", <<"indices must be integers">>))
  ELSE IF "tables" \notin s.keys THEN Raised(Exc("KeyError", <<"'tables'">>))
  ELSE IF "relationships" \notin s.keys
  THEN Raised(Exc("KeyError", <<"'relationships'">>))
  ELSE Ok([tables |-> s.tables])

_get_examples == ""

\* _prepare_prompt: the template with what format() binds to its placeholders
_prepare_prompt(template, s, query) ==
  LET summary == _get_schema_summary(s)
  IN  IF ~summary.ok THEN summary
      ELSE IF \E i \in 1..Len(template) :
                IsPlaceholder(template[i]) /\ template[i] \notin FormatKeys
      THEN Raised(Exc("KeyError", <<"'foo'">>))
      ELSE Ok([template |-> template,
               query |-> IF InTemplate(template, "{query}") THEN query ELSE "",
               schema |-> IF InTemplate(template, "{schema}")
                          THEN summary.val ELSE <<>>,
               examples |-> _get_examples])

\* self.provider.generate(prompt, timeout=timeout) under the given outcome
CallProvider(p, outcome) ==
  IF ~p.generate
  THEN Raised(Exc("AttributeError", <<"object has no attribute 'generate'">>))
  ELSE IF outcome.raises THEN Raised(outcome.exc)
  ELSE Ok(outcome.value)

\* "not ai_response or not isinstance(ai_response, dict)"
ResponseInvalid(r) == ~(r.kind = "dict" /\ r.keys # {})

\* ai_response.get("text", "") handed to _extract_sql
ResponseText(r) == IF "text" \in r.keys THEN r.text ELSE <<>>

\* re.search on a value that is no str
TextRaises(r) == "text" \in r.keys /\ ~r.text_is_str

\* a variant of the except clause that lets the exception through
Reraise(e) == e

\* the except clause of generate: the exception that leaves generate
HandleException(e) ==
  IF e.kind = "ProviderError"
  THEN Exc("ProviderError", <<"Error con el proveedor de IA: ">> \o e.msg)
  ELSE Exc("GenerationError", <<"Error al generar SQL: ">> \o e.msg)

InvalidResponseError ==
  Exc("GenerationError", <<"Respuesta inválida del proveedor de IA">>)

NoSqlError ==
  Exc("GenerationError",
      <<"No se pudo extraer una consulta SQL válida de la respuesta">>)

ValidPlaceholder == [valid |-> TRUE, errors |-> <<>>]

\* ------------------------------------------------------------------------
\* SchemaAnalyzer: the database it reflects
\* ------------------------------------------------------------------------

\* the tables of the database, in the order sorted() gives them
TableNames == <<"customers", "orders", "profiles">>

\* what MetaData.reflect gives for a column, an index, a foreign key, a table
ColumnValue(name, primary_key) == [name |-> name, primary_key |-> primary_key]

IndexValue(columns, unique) == [columns |-> columns, unique |-> unique]

ForeignKeyValue(column, references_table, references_column) ==
  [column |-> column, references_table |-> references_table,
   references_column |-> references_column]

TableValue(columns, foreign_keys, indexes) ==
  [columns |-> columns, foreign_keys |-> foreign_keys, indexes |-> indexes]

\* how the database constrains a column
ColumnKinds == {"plain", "indexed", "unique", "primary"}

IndexesOn(column, kind) ==
  IF kind = "unique" THEN <<IndexValue(<<column>>, TRUE)>>
  ELSE IF kind = "indexed" THEN <<IndexValue(<<column>>, FALSE)>>
  ELSE <<>>

\* orders.customer_id -> customers.id and profiles.customer_id -> customers.id,
\* with orders.customer_id constrained as from says and customers.id as to says
Database(from, to) ==
  [t \in Range(TableNames) |->
     IF t = "customers"
     THEN TableValue(<<ColumnValue("id", to = "primary"),
                       ColumnValue("email", FALSE)>>,
                     <<>>,
                     IndexesOn("id", to))
     ELSE IF t = "orders"
     THEN TableValue(<<ColumnValue("id", TRUE),
                       ColumnValue("customer_id", from = "primary"),
                       ColumnValue("total", FALSE)>>,
                     <<ForeignKeyValue("customer_id", "customers", "id")>>,
                     IndexesOn("customer_id", from))
     ELSE TableValue(<<ColumnValue("customer_id", TRUE),
                       ColumnValue("bio", FALSE)>>,
                     <<ForeignKeyValue("customer_id", "customers", "id")>>,
                     <<IndexValue(<<"bio", "customer_id">>, FALSE)>>)]

Databases == {Database(from, to) : from \in ColumnKinds, to \in ColumnKinds}

\* an engine bound to a database; a connection made by that engine
NoEngine == [kind |-> "none"]

Engine(db) == [kind |-> "engine", db |-> db]

NoConnection == [kind |-> "none"]

Connection(engine) == [kind |-> "connection", engine |-> engine]

\* What the reflection can raise: the exception's class (a subclass of
\* SQLAlchemyError or not), its message, and whether the fault it reports
\* is one of insufficient privilege.
Fault(class, msg, privilege) ==
  [class |-> class, msg |-> msg, privilege |-> privilege]

Faults ==
  {Fault("SQLAlchemyError", <<"p","e","r","m","i","s","s","i","o","n"," ","d","e","n","i","e","d"," ","f","o","r"," ","s","c","h","e","m","a"," ","p","u","b","l","i","c">>, TRUE),
   Fault("SQLAlchemyError", <<"I","n","s","u","f","f","i","c","i","e","n","t"," ","P","R","I","V","I","L","E","G","E","S"," ","o","n"," ","c","a","t","a","l","o","g">>, TRUE),
   Fault("SQLAlchemyError", <<"S","E","L","E","C","T"," ","c","o","m","m","a","n","d"," ","d","e","n","i","e","d"," ","t","o"," ","u","s","e","r">>, TRUE),
   Fault("SQLAlchemyError", <<"s","e","r","v","e","r"," ","h","a","s"," ","g","o","n","e"," ","a","w","a","y">>, FALSE),
   Fault("OSError", <<"c","o","n","n","e","c","t","i","o","n"," ","r","e","s","e","t"," ","b","y"," ","p","e","e","r">>, FALSE),
   Fault("TypeError", <<"o","b","j","e","c","t"," ","i","s"," ","n","o","t"," ","i","t","e","r","a","b","l","e">>, FALSE)}

Reflected == [class |-> "none", msg |-> <<>>, privilege |-> FALSE]

ReflectOutcomes == {Reflected} \cup Faults

\* the arguments analyze is called with; a list is given by its members, and
\* None, like the empty list, is the empty set
Depths == {"basic", "standard", "full"}

IncludeValues == {{}, {"orders"}, {"orders", "customers", "missing"}}

ExcludeValues == {{}, {"customers"}, {"profiles", "missing"}}

\* ------------------------------------------------------------------------
\* SchemaAnalyzer: analyze and its parts
\* ------------------------------------------------------------------------

\* sorted(tables)
sorted(tables) == SelectSeq(TableNames, LAMBDA t : t \in tables)

\* tables_to_analyze of analyze
tables_to_analyze(all_tables, include_tables, exclude_tables) ==
  LET included == IF include_tables # {}
                  THEN all_tables \cap include_tables ELSE all_tables
  IN  IF exclude_tables # {} THEN included \ exclude_tables ELSE included

\* the stats analyze starts from
InitialStats(tables) ==
  [tables_count |-> Cardinality(tables), columns_count |-> 0,
   foreign_keys_count |-> 0, primary_keys_count |-> 0, indexes_count |-> 0]

EmptySchemaData == << >>

\* self.schema_data as analyze initializes it
InitialSchemaData(tables) ==
  [tables |-> << >>, order |-> <<>>, relationships |-> <<>>,
   stats |-> InitialStats(tables)]

\* the names of the primary key columns, in column order
primary_key(columns) ==
  LET pk == SelectSeq(columns, LAMBDA column : column.primary_key)
  IN  AsSeq([i \in 1..Len(pk) |-> pk[i].name])

\* table_info of _analyze_table (column types, defaults, the extras of depth
\* "full" and row_count are left out)
_analyze_table(metadata, table_name, depth) ==
  LET table == metadata[table_name]
  IN  [name |-> table_name,
       columns |-> table.columns,
       primary_key |-> primary_key(table.columns),
       foreign_keys |-> table.foreign_keys,
       indexes |-> IF depth \in {"standard", "full"} THEN table.indexes ELSE <<>>]

\* any(idx["unique"] and column in idx["columns"] for idx in indexes)
InUniqueIndex(column, indexes) ==
  \E i \in DOMAIN indexes :
    indexes[i].unique /\ column \in Range(indexes[i].columns)

from_is_unique(fk, table_info) ==
  \/ fk.column \in Range(table_info.primary_key)
  \/ InUniqueIndex(fk.column, table_info.indexes)

\* to_table is {} when the referenced table was not analyzed
to_is_unique(fk, tables) ==
  /\ fk.references_table \in DOMAIN tables
  /\ LET to_table == tables[fk.references_table]
     IN  \/ fk.references_column \in Range(to_table.primary_key)
         \/ InUniqueIndex(fk.references_column, to_table.indexes)

\* a type that ignores the referenced column
TypeFromSourceOnly(from_unique, to_unique) ==
  IF from_unique THEN "one_to_many" ELSE "many_to_one"

relationship_type(from_unique, to_unique) ==
  IF from_unique /\ to_unique THEN "one_to_one"
  ELSE IF from_unique THEN "one_to_many"
  ELSE "many_to_one"

relationship(table_name, fk, tables) ==
  [table_from |-> table_name,
   column_from |-> fk.column,
   table_to |-> fk.references_table,
   column_to |-> fk.references_column,
   relationship_type |->
     relationship_type(from_is_unique(fk, tables[table_name]),
                       to_is_unique(fk, tables))]

\* the relationships of the tables named in order, table by table
RECURSIVE relationships(_, _)
relationships(order, tables) ==
  IF order = <<>> THEN <<>>
  ELSE LET table_info == tables[Head(order)]
       IN  AsSeq([i \in 1..Len(table_info.foreign_keys) |->
                    relationship(Head(order), table_info.foreign_keys[i], tables)])
           \o relationships(Tail(order), tables)

\* _analyze_relationships: self.schema_data["relationships"]
_analyze_relationships(schema_data) ==
  [schema_data EXCEPT
     !.relationships = relationships(schema_data.order, schema_data.tables)]

\* sum of len(table_info[field]) over the tables
RECURSIVE Total(_, _, _)
Total(order, tables, field) ==
  IF order = <<>> THEN 0
  ELSE Len(tables[Head(order)][field]) + Total(Tail(order), tables, field)

\* columns_count counted over the primary key columns only
PrimaryColumnsCount(schema_data) ==
  Total(schema_data.order, schema_data.tables, "primary_key")

columns_count(schema_data) ==
  Total(schema_data.order, schema_data.tables, "columns")

\* _calculate_statistics: self.schema_data["stats"]
_calculate_statistics(schema_data) ==
  [schema_data EXCEPT
     !.stats = [@ EXCEPT
       !.columns_count = columns_count(schema_data),
       !.foreign_keys_count =
          Total(schema_data.order, schema_data.tables, "foreign_keys"),
       !.primary_keys_count =
          Total(schema_data.order, schema_data.tables, "primary_key"),
       !.indexes_count =
          Total(schema_data.order, schema_data.tables, "indexes")]]

\* "permission" in error_msg.lower() or "privilege" in error_msg.lower()
MentionsPrivilege(error_msg) ==
  \/ Contains(upper(error_msg), <<"P","E","R","M","I","S","S","I","O","N">>)
  \/ Contains(upper(error_msg), <<"P","R","I","V","I","L","E","G","E">>)

\* what analyze raises when the reflection raises e: the except clause takes
\* a SQLAlchemyError and lets every other exception through
analyze_raises(e) ==
  IF e.class = "SQLAlchemyError"
  THEN IF MentionsPrivilege(e.msg)
       THEN Exc("PermissionError",
                <<"Sin permisos para leer el esquema: ">> \o e.msg)
       ELSE Exc("SchemaError", <<"Error al analizar esquema: ">> \o e.msg)
  ELSE Exc(e.class, e.msg)

NoConnectionError ==
  Exc("ConnectionError", <<"No hay conexión activa a base de datos">>)

\* ------------------------------------------------------------------------
\* ProgressTracker (src/utils/progress.py)
\* ------------------------------------------------------------------------

\* class PhaseStatus
PhaseStatus == {"PENDING", "RUNNING", "SUCCESS", "ERROR", "WARNING"}

\* the keys of ProgressTracker.PHASES
PHASES ==
  {"setup", "db_connection", "schema_analysis", "ai_provider", "system_start"}

\* Phase.__init__; a time is None, or "time" once time.time() was stored
Phase ==
  [status |-> "PENDING", progress |-> 0, start_time |-> "None",
   end_time |-> "None", message |-> ""]

\* Phase.is_completed
is_completed(phase) == phase.status \in {"SUCCESS", "ERROR"}

\* ProgressTracker.__init__; SHOW_PROGRESS is the module's flag
ProgressTracker(SHOW_PROGRESS) ==
  [SHOW_PROGRESS |-> SHOW_PROGRESS, phases |-> [k \in PHASES |-> Phase],
   current_phase_key |-> "None", global_start_time |-> "None",
   _last_status_lines |-> 0]

\* the lines _update_display prints for the phases in keys
RECURSIVE lines_count(_, _)
lines_count(t, keys) ==
  IF keys = {} THEN 0
  ELSE LET k == CHOOSE x \in keys : TRUE
       IN  (IF is_completed(t.phases[k]) THEN 5 ELSE 4)
             + lines_count(t, keys \ {k})

\* _update_display
_update_display(t, force_full) ==
  LET shown_phases ==
        {k \in DOMAIN t.phases :
           force_full \/ k = t.current_phase_key \/ is_completed(t.phases[k])}
  IN  IF ~t.SHOW_PROGRESS THEN t
      ELSE [t EXCEPT !._last_status_lines = lines_count(t, shown_phases)]

\* "if message:" of the three methods; "" stands for None, too
with_message(phase, message) ==
  IF message # "" THEN [phase EXCEPT !.message = message] ELSE phase

\* ProgressTracker.start_phase on a key of self.phases
StartPhase(t, phase_key, message) ==
  LET phase == [t.phases[phase_key] EXCEPT !.start_time = "time",
                                           !.status = "RUNNING",
                                           !.progress = 0]
  IN  _update_display(
        [t EXCEPT !.global_start_time = "time",
                  !.phases[phase_key] = with_message(phase, message),
                  !.current_phase_key = phase_key],
        FALSE)

\* max(0, min(100, progress))
clamp(progress) ==
  IF progress < 0 THEN 0 ELSE IF progress > 100 THEN 100 ELSE progress

\* ProgressTracker.update_progress with a current phase
UpdateProgress(t, progress, message) ==
  LET phase == [t.phases[t.current_phase_key] EXCEPT !.progress = clamp(progress)]
  IN  _update_display(
        [t EXCEPT !.phases[t.current_phase_key] = with_message(phase, message)],
        FALSE)

\* ProgressTracker.complete_phase with a current phase; status "None" leaves
\* the choice to success
CompletePhase(t, success, message, status) ==
  LET phase == [t.phases[t.current_phase_key] EXCEPT
                  !.progress = 100,
                  !.end_time = "time",
                  !.status = IF status # "None" THEN status
                             ELSE IF success THEN "SUCCESS" ELSE "ERROR"]
  IN  _update_display(
        [t EXCEPT !.phases[t.current_phase_key] = with_message(phase, message)],
        TRUE)

\* ------------------------------------------------------------------------
\* State
\* ------------------------------------------------------------------------

Calls == {1, 2}

VARIABLES
  provider,               \* self.provider
  schema,                 \* self.schema
  prompt_template,        \* self.prompt_template
  last_query,             \* self.last_query
  last_sql,               \* self.last_sql
  last_explanation,       \* self.last_explanation
  last_generation_time,   \* self.last_generation_time
  call,                   \* per caller: the method running, its locals
  unit,                   \* a text function applied on its own: input, output
  analyzer,               \* the SchemaAnalyzer object
  analysis,               \* its caller: the step of analyze, its locals
  tracker,                \* utils.progress.tracker
  script                  \* its caller: the call just made, its outcome

fields ==
  <<provider, schema, prompt_template, last_query, last_sql, last_explanation,
    last_generation_time>>

schema_analyzer == <<analyzer, analysis>>

progress_tracker == <<tracker, script>>

vars == <<fields, call, unit, schema_analyzer, progress_tracker>>

\* a caller that is in no method
IdleCall ==
  [op |-> "none", pc |-> "idle", query |-> "", options |-> EmptyOptions,
   parg |-> NoProvider, sarg |-> None, targ |-> <<>>, ret |-> FALSE,
   prompt |-> <<>>, ai_response |-> <<>>, generated_sql |-> <<>>,
   explanation |-> <<>>, validation_result |-> <<>>, elapsed |-> 0,
   result |-> <<>>, error |-> NoExc, fault |-> NoExc, origin |-> "none",
   sent |-> <<>>, path |-> <<>>, before |-> ""]

\* what the orchestrator remembers of its last generation
remembered ==
  <<last_query, last_sql, last_explanation, last_generation_time>>

NoUnit == [fn |-> "none", arg |-> <<>>, ret |-> <<>>]

\* SchemaAnalyzer.__init__
NewAnalyzer(connection, engine) ==
  [connection |-> connection, engine |-> engine, metadata |-> << >>,
   schema_data |-> EmptySchemaData, sample_data |-> << >>, analyzed |-> FALSE]

\* the analyzer's caller before any call of analyze
IdleAnalysis ==
  [pc |-> "idle", depth |-> "full", include_tables |-> {},
   exclude_tables |-> {}, include_sample_data |-> TRUE,
   tables_to_analyze |-> {}, pending |-> <<>>, fault |-> Reflected,
   error |-> NoExc, ret |-> FALSE]

\* the module's tracker and its caller before any call
NoScript == [op |-> "none", args |-> <<>>, error |-> NoExc, calls |-> 0]

NoProgress ==
  /\ tracker = ProgressTracker(TRUE)
  /\ script = NoScript

NoAnalyzer ==
  /\ analyzer = NewAnalyzer(NoConnection, NoEngine)
  /\ analysis = IdleAnalysis

\* __init__
Init ==
  /\ provider \in InitProviders
  /\ schema \in InitSchemas
  /\ prompt_template = DefaultTemplate
  /\ last_query = ""
  /\ last_sql = <<>>
  /\ last_explanation = <<>>
  /\ last_generation_time = 0
  /\ call = [c \in Calls |-> IdleCall]
  /\ unit = NoUnit
  /\ NoAnalyzer
  /\ NoProgress

\* ------------------------------------------------------------------------
\* The setters: each runs as one step and returns
\* ------------------------------------------------------------------------

Returned(c, op, r) ==
  call' = [call EXCEPT ![c] = [r EXCEPT !.op = op, !.pc = "returned"]]

set_provider(c, p) ==
  /\ call[c].pc = "idle"
  /\ provider' = IF ProviderAccepted(p) THEN p ELSE provider
  /\ Returned(c, "set_provider", [IdleCall EXCEPT !.parg = p, !.ret = ProviderAccepted(p)])
  /\ UNCHANGED <<schema, prompt_template, last_query, last_sql, last_explanation,
                 last_generation_time, unit, schema_analyzer, progress_tracker>>

set_schema(c, s) ==
  /\ call[c].pc = "idle"
  /\ schema' = IF SchemaAccepted(s) THEN s ELSE schema
  /\ Returned(c, "set_schema", [IdleCall EXCEPT !.sarg = s, !.ret = SchemaAccepted(s)])
  /\ UNCHANGED <<provider, prompt_template, last_query, last_sql, last_explanation,
                 last_generation_time, unit, schema_analyzer, progress_tracker>>

set_prompt_template(c, template) ==
  /\ call[c].pc = "idle"
  /\ prompt_template' =
       IF TemplateAccepted(template) THEN template ELSE prompt_template
  /\ Returned(c, "set_prompt_template", [IdleCall EXCEPT !.targ = template])
  /\ UNCHANGED <<provider, schema, last_query, last_sql, last_explanation,
                 last_generation_time, unit, schema_analyzer, progress_tracker>>

reset_prompt_template(c) ==
  /\ call[c].pc = "idle"
  /\ prompt_template' = DefaultTemplate
  /\ Returned(c, "reset_prompt_template", IdleCall)
  /\ UNCHANGED <<provider, schema, last_query, last_sql, last_explanation,
                 last_generation_time, unit, schema_analyzer, progress_tracker>>

\* ------------------------------------------------------------------------
\* generate, step by step
\* ------------------------------------------------------------------------

\* caller c is at step pc of generate
At(c, pc) == call[c].op = "generate" /\ call[c].pc = pc

\* caller c moves on with its locals changed to r
Goto(c, pc, r) ==
  call' = [call EXCEPT ![c] = [r EXCEPT !.pc = pc, !.path = Append(r.path, pc)]]

\* exception e leaves generate in caller c; fault is the exception that arose
\* at step origin
Raise(c, e, fault, origin, r) ==
  call' = [call EXCEPT ![c] =
             [r EXCEPT !.pc = "raised", !.error = e, !.fault = fault,
                       !.origin = origin]]

\* fault arises inside the try block at step origin
Fail(c, fault, origin, r) == Raise(c, HandleException(fault), fault, origin, r)

\* generate(query, options) is called; the caller keeps the query the
\* orchestrator remembered before the call
Call(c, query, options) ==
  /\ call[c].pc = "idle"
  /\ call' = [call EXCEPT ![c] =
                [IdleCall EXCEPT !.op = "generate", !.pc = "entry",
                                 !.query = query, !.options = options,
                                 !.before = last_query]]
  /\ UNCHANGED <<fields, unit, schema_analyzer, progress_tracker>>

\* the checks of the provider and the schema, then self.last_query = query
Entry(c) ==
  /\ At(c, "entry")
  /\ LET e == EntryError(provider, schema)
     IN  IF e # NoExc
         THEN /\ Raise(c, e, e, "entry", call[c])
              /\ UNCHANGED last_query
         ELSE /\ last_query' = call[c].query
              /\ Goto(c, "prompting", call[c])
  /\ UNCHANGED <<provider, schema, prompt_template, last_sql, last_explanation,
                 last_generation_time, unit, schema_analyzer, progress_tracker>>

\* prompt = self._prepare_prompt(query)
Prompt(c) ==
  /\ At(c, "prompting")
  /\ LET p == _prepare_prompt(prompt_template, schema, call[c].query)
     IN  IF p.ok
         THEN Goto(c, "awaiting", [call[c] EXCEPT !.prompt = p.val])
         ELSE Fail(c, p.exc, "prompting", call[c])
  /\ UNCHANGED <<fields, unit, schema_analyzer, progress_tracker>>

\* a provider step that calls the provider again when the call raised
ProviderRetrying(c, outcome) ==
  /\ At(c, "awaiting")
  /\ LET r == CallProvider(provider, outcome)
         invocation == [prompt |-> call[c].prompt[1],
                        timeout |-> Get(call[c].options, "timeout", DefaultTimeout)]
         me == [call[c] EXCEPT !.sent = Append(@, invocation)]
     IN  IF ~r.ok
         THEN Goto(c, "awaiting", me)
         ELSE IF ResponseInvalid(r.val[1])
         THEN Fail(c, InvalidResponseError, "response", me)
         ELSE Goto(c, "parsing", [me EXCEPT !.ai_response = r.val])
  /\ UNCHANGED <<fields, unit, schema_analyzer, progress_tracker>>

\* ai_response = self.provider.generate(prompt, timeout=timeout), and the
\* test of the response
Provider(c, outcome) ==
  /\ At(c, "awaiting")
  /\ LET r == CallProvider(provider, outcome)
         invocation == [prompt |-> call[c].prompt[1],
                        timeout |-> Get(call[c].options, "timeout", DefaultTimeout)]
         me == [call[c] EXCEPT !.sent = Append(@, invocation)]
     IN  IF ~r.ok
         THEN Fail(c, r.exc, IF provider.generate THEN "provider" ELSE "lookup", me)
         ELSE IF ResponseInvalid(r.val[1])
         THEN Fail(c, InvalidResponseError, "response", me)
         ELSE Goto(c, "parsing", [me EXCEPT !.ai_response = r.val])
  /\ UNCHANGED <<fields, unit, schema_analyzer, progress_tracker>>

\* generated_sql = self._extract_sql(...), explanation = ...
Parse(c) ==
  /\ At(c, "parsing")
  /\ LET r == call[c].ai_response[1]
         sql == _extract_sql(ResponseText(r))
     IN  IF TextRaises(r)
         THEN Fail(c, Exc("TypeError", <<"expected string or bytes-like object">>),
                   "parsing", call[c])
         ELSE IF sql = <<>>
         THEN Fail(c, NoSqlError, "parsing", call[c])
         ELSE Goto(c, "formatting",
                   [call[c] EXCEPT
                      !.generated_sql = sql,
                      !.explanation =
                         IF Get(call[c].options, "include_explanation", TRUE)
                         THEN _extract_explanation(ResponseText(r)) ELSE <<>>])
  /\ UNCHANGED <<fields, unit, schema_analyzer, progress_tracker>>

\* if format_sql: generated_sql = self._format_sql(generated_sql)
Format(c) ==
  /\ At(c, "formatting")
  /\ Goto(c, "validating",
          [call[c] EXCEPT
             !.generated_sql =
                IF Get(call[c].options, "format_sql", TRUE)
                THEN _format_sql(@) ELSE @])
  /\ UNCHANGED <<fields, unit, schema_analyzer, progress_tracker>>

\* validation_result = ...; if validate_sql: self._validate_sql(generated_sql)
Validate(c) ==
  /\ At(c, "validating")
  /\ IF ~Get(call[c].options, "validate_sql", TRUE)
     THEN Goto(c, "save_sql", [call[c] EXCEPT !.validation_result = Some(ValidPlaceholder)])
     ELSE IF ValidateRaises(schema)
     THEN Fail(c, Exc("KeyError", <<"'tables'">>), "validating", call[c])
     ELSE Goto(c, "save_sql",
               [call[c] EXCEPT !.validation_result =
                                  Some(_validate_sql(call[c].generated_sql, schema))])
  /\ UNCHANGED <<fields, unit, schema_analyzer, progress_tracker>>

\* self.last_sql = generated_sql
SaveSql(c) ==
  /\ At(c, "save_sql")
  /\ last_sql' = call[c].generated_sql
  /\ Goto(c, "save_explanation", call[c])
  /\ UNCHANGED <<provider, schema, prompt_template, last_query, last_explanation,
                 last_generation_time, unit, schema_analyzer, progress_tracker>>

\* self.last_explanation = explanation
SaveExplanation(c) ==
  /\ At(c, "save_explanation")
  /\ last_explanation' = call[c].explanation
  /\ Goto(c, "save_time", call[c])
  /\ UNCHANGED <<provider, schema, prompt_template, last_query, last_sql,
                 last_generation_time, unit, schema_analyzer, progress_tracker>>

\* self.last_generation_time = time.time() - start_time
SaveTime(c, elapsed) ==
  /\ At(c, "save_time")
  /\ last_generation_time' = elapsed
  /\ Goto(c, "assemble", [call[c] EXCEPT !.elapsed = elapsed])
  /\ UNCHANGED <<provider, schema, prompt_template, last_query, last_sql,
                 last_explanation, unit, schema_analyzer, progress_tracker>>

\* result = {...}; return result
Assemble(c) ==
  /\ At(c, "assemble")
  /\ Goto(c, "returned",
          [call[c] EXCEPT !.result =
             Some([sql |-> call[c].generated_sql,
                   explanation |-> call[c].explanation,
                   generation_time |-> last_generation_time,
                   validation |-> call[c].validation_result[1],
                   query |-> call[c].query])])
  /\ UNCHANGED <<fields, unit, schema_analyzer, progress_tracker>>

\* the caller takes the value returned or the exception raised
Return(c) ==
  /\ call[c].pc \in {"returned", "raised"}
  /\ call' = [call EXCEPT ![c] = IdleCall]
  /\ UNCHANGED <<fields, unit, schema_analyzer, progress_tracker>>

Step(c, outcomes) ==
  \/ Entry(c)
  \/ Prompt(c)
  \/ \E outcome \in outcomes : Provider(c, outcome)
  \/ Parse(c)
  \/ Format(c)
  \/ Validate(c)
  \/ SaveSql(c)
  \/ SaveExplanation(c)
  \/ \E elapsed \in 1..MaxElapsed : SaveTime(c, elapsed)
  \/ Assemble(c)
  \/ Return(c)

\* one caller: the methods run one after the other
Next ==
  \/ \E p \in ProviderValues : set_provider(1, p)
  \/ \E s \in SchemaValues : set_schema(1, s)
  \/ \E template \in TemplateValues : set_prompt_template(1, template)
  \/ reset_prompt_template(1)
  \/ \E query \in QueryValues, options \in OptionValues : Call(1, query, options)
  \/ Step(1, ProviderOutcomes)

Spec == Init /\ [][Next]_vars

\* ------------------------------------------------------------------------
\* Two callers share one SQLGenerator; nobody swaps the provider or schema
\* ------------------------------------------------------------------------

ConcOutcomes ==
  {Returns(RespText(TextFenced)), Returns(RespText(TextBare)),
   Raises(Exc("TimeoutError", <<"timed out">>))}

ConcInit ==
  /\ Init
  /\ provider = ProviderValue(1, TRUE)
  /\ schema = ValidSchema1

ConcNext ==
  \E c \in Calls :
    \/ \E query \in QueryValues : Call(c, query, EmptyOptions)
    \/ Step(c, ConcOutcomes)

SpecConc == ConcInit /\ [][ConcNext]_vars

\* ------------------------------------------------------------------------
\* _validate_sql on its own, over statements put together from parts
\* ------------------------------------------------------------------------

t_ghosts == <<"g","h","o","s","t","s">>

\* A part of a statement: its text, whether it is well-formed SQL, and the
\* tables it refers to.
Part(text, ok, refs) == [text |-> text, ok |-> ok, refs |-> refs]

SelectHeads ==
  {Part(<<"S","E","L","E","C","T"," ","*">>, TRUE, {}),
   Part(<<"s","e","l","e","c","t"," ","i","d">>, TRUE, {}),
   Part(<<"S","E","L","E","C","T"," ","'",")","'">>, TRUE, {}),
   Part(<<"S","E","L","E","C","T"," ","'","\"","'">>, TRUE, {}),
   Part(<<"S","E","L","E","C","T"," ","E","X","T","R","A","C","T","(","Y","E","A","R"," ","F","R","O","M"," ","c","r","e","a","t","e","d",")">>, TRUE, {}),
   Part(<<"S","E","L","E","C","T"," ","f","r","o","m","_","d","a","t","e">>, TRUE, {}),
   Part(<<"S","E","L","E","C","T"," ","C","O","U","N","T","(","*">>, FALSE, {}),
   Part(<<"S","E","L","E","C","T"," ","'","a">>, FALSE, {})}

FromClauses ==
  {Part(<<>>, FALSE, {}),
   Part(<<" ","F","R","O","M"," ","o","r","d","e","r","s">>, TRUE, {t_orders}),
   Part(<<" ","F","R","O","M"," ","u","s","e","r","s">>, TRUE, {t_users}),
   Part(<<" ","F","R","O","M"," ","g","h","o","s","t","s">>, TRUE, {t_ghosts}),
   Part(<<" ","F","R","O","M"," ","O","r","d","e","r","s">>, TRUE, {t_orders}),
   Part(<<" ","F","R","O","M"," ","p","u","b","l","i","c",".","o","r","d","e","r","s">>, TRUE, {t_orders}),
   Part(<<" ","F","R","O","M"," ","\"","o","r","d","e","r","s","\"">>, TRUE, {t_orders}),
   Part(<<" ","F","R","O","M"," ","o","r","d","e","r","s",","," ","g","h","o","s","t","s">>, TRUE, {t_orders, t_ghosts}),
   Part(<<" ","F","R","O","M"," ","o","r","d","e","r","s"," ","J","O","I","N"," ","u","s","e","r","s"," ","U","S","I","N","G"," ","(","i","d",")">>, TRUE, {t_orders, t_users}),
   Part(<<" ","f","r","o","m","\t","o","r","d","e","r","s"," ","j","o","i","n","\n","u","s","e","r","s"," ","u","s","i","n","g"," ","(","i","d",")">>, TRUE, {t_orders, t_users}),
   Part(<<" ","F","R","O","M"," ","o","r","d","e","r","s"," ","o"," ","L","E","F","T"," ","J","O","I","N"," ","g","h","o","s","t","s"," ","g"," ","U","S","I","N","G"," ","(","i","d",")">>, TRUE, {t_orders, t_ghosts}),
   Part(<<" ","F","R","O","M"," ","g","h","o","s","t","s"," ","J","O","I","N"," ","g","h","o","s","t","s"," ","g"," ","U","S","I","N","G"," ","(","i","d",")">>, TRUE, {t_ghosts}),
   Part(<<" ","F","R","O","M"," ","(","o","r","d","e","r","s">>, FALSE, {t_orders})}

Tails ==
  {Part(<<>>, TRUE, {}),
   Part(<<";">>, TRUE, {}),
   Part(<<" ","W","H","E","R","E"," ","n","a","m","e"," ","="," ","'","O","'","'","B","r","i","e","n","'">>, TRUE, {}),
   Part(<<" ","W","H","E","R","E"," ","n","o","t","e"," ","="," ","'","(","'">>, TRUE, {}),
   Part(<<" ","W","H","E","R","E"," ","n","a","m","e"," ","="," ","'","a">>, FALSE, {})}

\* a statement: its text, whether it is well-formed, the tables it refers to
Statement(text, ok, refs) == [text |-> text, wellformed |-> ok, refs |-> refs]

OtherStatements ==
  {Statement(<<"D","E","L","E","T","E"," ","F","R","O","M"," ","o","r","d","e","r","s">>, TRUE, {t_orders}),
   Statement(<<"U","P","D","A","T","E"," ","g","h","o","s","t","s"," ","S","E","T"," ","a"," ","="," ","1">>, TRUE, {t_ghosts}),
   Statement(<<"I","N","S","E","R","T"," ","I","N","T","O"," ","u","s","e","r","s"," ","V","A","L","U","E","S"," ","(","1",")">>, TRUE, {t_users}),
   Statement(<<>>, FALSE, {})}

Statements ==
  {Statement(h.text \o f.text \o t.text, h.ok /\ f.ok /\ t.ok,
             h.refs \cup f.refs \cup t.refs) :
     h \in SelectHeads, f \in FromClauses, t \in Tails}
    \cup OtherStatements

\* the schemas held while _validate_sql runs
ValidateSchemas ==
  {None, EmptyDict, ValidSchema1, ValidSchema2, NoTables, TablesOnly}

ValidateInit ==
  /\ provider \in InitProviders
  /\ schema \in ValidateSchemas
  /\ prompt_template = DefaultTemplate
  /\ last_query = ""
  /\ last_sql = <<>>
  /\ last_explanation = <<>>
  /\ last_generation_time = 0
  /\ call = [c \in Calls |-> IdleCall]
  /\ unit \in {[fn |-> "none", arg |-> st, ret |-> <<>>] : st \in Statements}
  /\ NoAnalyzer
  /\ NoProgress

\* self._validate_sql(sql)
validate_unit ==
  /\ unit.fn = "none"
  /\ unit' = [unit EXCEPT !.fn = "_validate_sql",
                          !.ret = Some(_validate_sql(unit.arg.text, schema))]
  /\ UNCHANGED <<fields, call, schema_analyzer, progress_tracker>>

ValidateNext == validate_unit

SpecValidate == ValidateInit /\ [][ValidateNext]_vars

\* ------------------------------------------------------------------------
\* _format_sql, _extract_sql and _extract_explanation on their own
\* ------------------------------------------------------------------------

\* a text handed to one of the text functions: SQL or a provider's response
TextInput(kind, text) == [kind |-> kind, text |-> text]

SqlInputs ==
  {TextInput("sql", st.text) : st \in Statements}
    \cup {TextInput("sql", <<"S","E","L","E","C","T"," ","i","d"," ","F","R","O","M"," ","u","s","e","r","s",";">>),
          TextInput("sql", <<"s","e","l","e","c","t"," ","a"," ","f","r","o","m"," ","t"," ","g","r","o","u","p"," ","b","y"," ","a"," ","o","r","d","e","r"," ","b","y"," ","a"," ","l","i","m","i","t"," ","1">>),
          TextInput("sql", <<"u","p","d","a","t","e"," ","t"," ","s","e","t"," ","a"," ","="," ","1"," ","w","h","e","r","e"," ","b"," ","i","s"," ","n","o","t"," ","n","u","l","l">>),
          TextInput("sql", <<"s","e","l","e","c","t"," ","1">>),
          TextInput("sql", <<"s","e","l","e","c","t"," ","n","a","m","e"," ","f","r","o","m"," ","u","s","e","r","s"," ","w","h","e","r","e"," ","n","o","t","e"," ","="," ","'","i","n"," ","o","r"," ","o","u","t","'">>),
          TextInput("sql", <<"S","E","L","E","C","T"," ","f","r","o","m","_","d","a","t","e",","," ","s","e","l","e","c","t","e","d"," ","F","R","O","M"," ","o","r","d","e","r","s","_","i","n"," ","W","H","E","R","E"," ","i","d"," ","I","N"," ","(","1",")">>),
          TextInput("sql", <<"s","e","l","e","c","t"," ","*"," ","f","r","o","m"," ","a"," ","l","e","f","t"," ","j","o","i","n"," ","b"," ","o","n"," ","a",".","i","d"," ","="," ","b",".","i","d">>),
          TextInput("sql", <<"d","e","l","e","t","e"," ","f","r","o","m"," ","t"," ","w","h","e","r","e"," ","i","d"," ","="," ","1">>),
          TextInput("sql", <<"i","n","s","e","r","t"," ","i","n","t","o"," ","t"," ","v","a","l","u","e","s"," ","(","1",")">>),
          TextInput("sql", <<"S","E","L","E","C","T"," ","a"," ","F","R","O","M"," ","t"," ","i","n","n","e","r"," ","j","o","i","n"," ","u"," ","u","s","i","n","g"," ","(","i","d",")"," ","g","r","o","u","p"," ","b","y"," ","a"," ","h","a","v","i","n","g"," ","a"," ",">"," ","1">>)}

\* pieces of a response that carry SQL in one of the ways _extract_sql knows
Carriers ==
  {<<BT,BT,BT,"s","q","l","\n","S","E","L","E","C","T"," ","i","d"," ","F","R","O","M"," ","u","s","e","r","s",";","\n",BT,BT,BT>>,
   <<BT,BT,BT,"s","q","l","\n","S","E","L","E","C","T"," ","u",".","i","d"," ","F","R","O","M"," ","u","s","e","r","s"," ","u",";","\n",BT,BT,BT>>,
   <<BT,BT,BT,"\n","S","E","L","E","C","T"," ","a"," ","F","R","O","M"," ","t","2","\n",BT,BT,BT>>,
   <<"S","Q","L",":"," ",BT,BT,BT,"\n","-","-"," ","t","o","p","\n","S","E","L","E","C","T"," ","b"," ","F","R","O","M"," ","t","3","\n",BT,BT,BT>>,
   <<"S","Q","L"," ","Q","u","e","r","y",":"," ",BT,BT,BT,"\n","-","-"," ","t","o","p","\n","S","E","L","E","C","T"," ","c"," ","F","R","O","M"," ","t","4","\n",BT,BT,BT>>,
   <<"S","Q","L",":"," ","S","E","L","E","C","T"," ","d"," ","F","R","O","M"," ","t","5",";">>,
   <<"S","E","L","E","C","T"," ","e"," ","F","R","O","M"," ","t","6">>,
   <<"S","E","L","E","C","T"," ","t",".","c","o","l"," ","F","R","O","M"," ","t">>,
   <<"I","N","S","E","R","T"," ","I","N","T","O"," ","t"," ","S","E","L","E","C","T"," ","a"," ","F","R","O","M"," ","u",";">>,
   <<"U","P","D","A","T","E"," ","t"," ","S","E","T"," ","a"," ","="," ","1","."," ","L","i","s","t","o">>,
   <<"N","o"," ","p","u","e","d","o">>}

Prefixes == {<<>>, <<"H","o","l","a","."," ">>}

Suffixes ==
  {<<>>,
   <<"\n","E","x","p","l","i","c","a","c","i","ó","n",":"," ","f","i","l","t","r","a"," ","u","s","u","a","r","i","o","s">>,
   <<"\n","T","h","i","s"," ","q","u","e","r","y",":"," ","l","i","s","t","s"," ","u","s","e","r","s","\n",BT,BT,BT,"\n","e","x","t","r","a","\n",BT,BT,BT>>}

\* responses with up to two carriers, one after the other
Responses ==
  {TextInput("response", pre \o a \o <<"\n">> \o b \o post) :
     pre \in Prefixes, a \in Carriers \cup {<<>>}, b \in Carriers \cup {<<>>},
     post \in Suffixes}

\* A response with a fenced block tagged sql and, after it, a marker and an
\* explanation: its text, the block's content trimmed, the explanation trimmed.
Marked(pre, content, marker, expl, post) ==
  [kind |-> "marked",
   text |-> pre \o FenceSql \o <<"\n">> \o content \o <<"\n">> \o Fence
              \o <<"\n">> \o marker \o expl \o post,
   content |-> strip(content),
   after |-> strip(expl)]

MarkedResponses ==
  {Marked(pre, content, explanation_markers[n], expl, post) :
     pre \in {<<>>, <<"A","q","u","í"," ","t","i","e","n","e","s",":","\n">>},
     content \in {<<"S","E","L","E","C","T"," ","i","d"," ","F","R","O","M"," ","u","s","e","r","s",";">>, <<" ","s","e","l","e","c","t"," ","u",".","i","d","\n","f","r","o","m"," ","u","s","e","r","s"," ","u"," ">>},
     n \in DOMAIN explanation_markers,
     expl \in {<<" ","f","i","l","t","r","a"," ","u","s","u","a","r","i","o","s">>, <<"\n","L","i","s","t","a"," ","l","o","s"," ","u","s","u","a","r","i","o","s",".","\n">>},
     post \in {<<>>, <<"\n">>, <<BT,BT,BT,"\n","e","x","t","r","a","\n",BT,BT,BT>>}}

TextInputs == SqlInputs \cup Responses \cup MarkedResponses

TextInit ==
  /\ provider = NoProvider
  /\ schema = None
  /\ prompt_template = DefaultTemplate
  /\ last_query = ""
  /\ last_sql = <<>>
  /\ last_explanation = <<>>
  /\ last_generation_time = 0
  /\ call = [c \in Calls |-> IdleCall]
  /\ unit \in {[fn |-> "none", arg |-> t, ret |-> <<>>] : t \in TextInputs}
  /\ NoAnalyzer
  /\ NoProgress

\* self._format_sql(sql)
format_unit ==
  /\ unit.fn = "none"
  /\ unit.arg.kind = "sql"
  /\ unit' = [unit EXCEPT !.fn = "_format_sql",
                          !.ret = <<_format_sql(unit.arg.text)>>]
  /\ UNCHANGED <<fields, call, schema_analyzer, progress_tracker>>

\* self._format_sql(formatted): the function applied to its own result
format_again ==
  /\ unit.fn = "_format_sql"
  /\ unit' = [unit EXCEPT !.fn = "_format_sql twice",
                          !.ret = Append(@, _format_sql(unit.ret[1]))]
  /\ UNCHANGED <<fields, call, schema_analyzer, progress_tracker>>

\* self._extract_sql(response)
extract_sql_unit ==
  /\ unit.fn = "none"
  /\ unit.arg.kind \in {"response", "marked"}
  /\ unit' = [unit EXCEPT !.fn = "_extract_sql",
                          !.ret = <<_extract_sql(unit.arg.text)>>]
  /\ UNCHANGED <<fields, call, schema_analyzer, progress_tracker>>

\* self._extract_sql(self._format_sql(sql)) on the SQL extracted
reextract_unit ==
  /\ unit.fn = "_extract_sql"
  /\ unit.ret[1] # <<>>
  /\ unit' = [unit EXCEPT !.fn = "_extract_sql again",
                          !.ret = <<unit.ret[1], _format_sql(unit.ret[1]),
                                    _extract_sql(_format_sql(unit.ret[1]))>>]
  /\ UNCHANGED <<fields, call, schema_analyzer, progress_tracker>>

\* self._extract_explanation(response)
extract_explanation_unit ==
  /\ unit.fn = "none"
  /\ unit.arg.kind \in {"response", "marked"}
  /\ unit' = [unit EXCEPT !.fn = "_extract_explanation",
                          !.ret = <<_extract_explanation(unit.arg.text)>>]
  /\ UNCHANGED <<fields, call, schema_analyzer, progress_tracker>>

TextNext ==
  \/ format_unit
  \/ format_again
  \/ extract_sql_unit
  \/ reextract_unit
  \/ extract_explanation_unit

SpecText == TextInit /\ [][TextNext]_vars

\* ------------------------------------------------------------------------
\* SchemaAnalyzer: set_connection and analyze, step by step
\* ------------------------------------------------------------------------

Resting == analysis.pc \in {"idle", "done", "raised"}

AnalyzeInit ==
  /\ provider = NoProvider
  /\ schema = None
  /\ prompt_template = DefaultTemplate
  /\ last_query = ""
  /\ last_sql = <<>>
  /\ last_explanation = <<>>
  /\ last_generation_time = 0
  /\ call = [c \in Calls |-> IdleCall]
  /\ unit = NoUnit
  /\ analyzer \in {NewAnalyzer(NoConnection, NoEngine)}
                    \cup {NewAnalyzer(Connection(Engine(db)), Engine(db)) :
                            db \in Databases}
  /\ analysis = IdleAnalysis
  /\ NoProgress

set_connection(connection, engine) ==
  /\ Resting
  /\ analyzer' =
       IF connection # NoConnection
       THEN [analyzer EXCEPT !.connection = connection,
                             !.engine = connection.engine]
       ELSE IF engine # NoEngine
       THEN [analyzer EXCEPT !.engine = engine,
                             !.connection = Connection(engine)]
       ELSE analyzer
  /\ analysis' = [analysis EXCEPT
                    !.ret = connection # NoConnection \/ engine # NoEngine]
  /\ UNCHANGED <<fields, call, unit, progress_tracker>>

\* analyze is called, once: the connection check
analyze(depth, include_tables, exclude_tables, include_sample_data) ==
  /\ analysis.pc = "idle"
  /\ LET started == [IdleAnalysis EXCEPT
                       !.depth = depth,
                       !.include_tables = include_tables,
                       !.exclude_tables = exclude_tables,
                       !.include_sample_data = include_sample_data,
                       !.ret = analysis.ret]
     IN  analysis' =
           IF analyzer.connection = NoConnection /\ analyzer.engine = NoEngine
           THEN [started EXCEPT !.pc = "raised", !.error = NoConnectionError]
           ELSE [started EXCEPT !.pc = "reflect"]
  /\ UNCHANGED <<fields, call, unit, analyzer, progress_tracker>>

\* self.metadata.reflect(bind=self.engine), the filters, self.schema_data; or
\* the except clause when the reflection raises
Reflect(outcome) ==
  /\ analysis.pc = "reflect"
  /\ IF outcome = Reflected
     THEN LET metadata == analyzer.engine.db
              tables == tables_to_analyze(DOMAIN metadata,
                                          analysis.include_tables,
                                          analysis.exclude_tables)
          IN  /\ analyzer' = [analyzer EXCEPT
                                !.metadata = metadata,
                                !.schema_data = InitialSchemaData(tables)]
              /\ analysis' = [analysis EXCEPT
                                !.tables_to_analyze = tables,
                                !.pending = sorted(tables),
                                !.pc = IF tables = {} THEN "relationships"
                                       ELSE "tables"]
     ELSE /\ analyzer' = [analyzer EXCEPT !.metadata = << >>]
          /\ analysis' = [analysis EXCEPT
                            !.fault = outcome,
                            !.error = analyze_raises(outcome),
                            !.pc = "raised"]
  /\ UNCHANGED <<fields, call, unit, progress_tracker>>

\* one turn of the loop: self._analyze_table(table_name, depth)
AnalyzeTable ==
  /\ analysis.pc = "tables"
  /\ LET table_name == Head(analysis.pending)
         table_info == _analyze_table(analyzer.metadata, table_name,
                                      analysis.depth)
         tables == analyzer.schema_data.tables
     IN  analyzer' = [analyzer EXCEPT
           !.schema_data.tables =
              [t \in DOMAIN tables \cup {table_name} |->
                 IF t = table_name THEN table_info ELSE tables[t]],
           !.schema_data.order = Append(@, table_name)]
  /\ analysis' = [analysis EXCEPT
                    !.pending = Tail(@),
                    !.pc = IF Tail(analysis.pending) = <<>>
                           THEN "relationships" ELSE "tables"]
  /\ UNCHANGED <<fields, call, unit, progress_tracker>>

\* self._analyze_relationships()
AnalyzeRelationships ==
  /\ analysis.pc = "relationships"
  /\ analyzer' = [analyzer EXCEPT
                    !.schema_data = _analyze_relationships(@)]
  /\ analysis' = [analysis EXCEPT
                    !.pc = IF analysis.include_sample_data
                           THEN "sample" ELSE "statistics"]
  /\ UNCHANGED <<fields, call, unit, progress_tracker>>

\* self._collect_sample_data(tables_to_analyze, max_sample_rows); the rows
\* themselves are left out
CollectSampleData ==
  /\ analysis.pc = "sample"
  /\ analyzer' = [analyzer EXCEPT
                    !.sample_data = [t \in analysis.tables_to_analyze |-> <<>>]]
  /\ analysis' = [analysis EXCEPT !.pc = "statistics"]
  /\ UNCHANGED <<fields, call, unit, progress_tracker>>

\* self._calculate_statistics(), self.analyzed = True, return
Finish ==
  /\ analysis.pc = "statistics"
  /\ analyzer' = [analyzer EXCEPT
                    !.schema_data = _calculate_statistics(@),
                    !.analyzed = TRUE]
  /\ analysis' = [analysis EXCEPT !.pc = "done"]
  /\ UNCHANGED <<fields, call, unit, progress_tracker>>

AnalyzeNext ==
  \/ \E db \in Databases :
       \/ set_connection(Connection(Engine(db)), NoEngine)
       \/ set_connection(NoConnection, Engine(db))
  \/ set_connection(NoConnection, NoEngine)
  \/ \E depth \in Depths, include_tables \in IncludeValues,
        exclude_tables \in ExcludeValues, include_sample_data \in BOOLEAN :
       analyze(depth, include_tables, exclude_tables, include_sample_data)
  \/ \E outcome \in ReflectOutcomes : Reflect(outcome)
  \/ AnalyzeTable
  \/ AnalyzeRelationships
  \/ CollectSampleData
  \/ Finish

SpecAnalyze == AnalyzeInit /\ [][AnalyzeNext]_vars

\* ------------------------------------------------------------------------
\* The progress tracker on its own: any sequence of start_phase,
\* update_progress and complete_phase on the module's tracker
\* ------------------------------------------------------------------------

MaxCalls == 4

\* the keys callers start: those of PHASES, and the one of scripts/test_core.py
\* that PHASES does not have
PhaseKeys == PHASES \cup {"sql_generation"}

Messages == {"", "mensaje"}

Progresses == {0 - 1, 0, 50, 100, 101}

ProgressInit ==
  /\ provider = NoProvider
  /\ schema = None
  /\ prompt_template = DefaultTemplate
  /\ last_query = ""
  /\ last_sql = <<>>
  /\ last_explanation = <<>>
  /\ last_generation_time = 0
  /\ call = [c \in Calls |-> IdleCall]
  /\ unit = NoUnit
  /\ NoAnalyzer
  /\ tracker \in {ProgressTracker(show) : show \in BOOLEAN}
  /\ script = NoScript

\* the caller's record of the call it has just made
Called(op, args, error) ==
  [op |-> op, args |-> args, error |-> error, calls |-> script.calls + 1]

start_phase ==
  /\ script.calls < MaxCalls
  /\ \E phase_key \in PhaseKeys, message \in Messages :
       LET args == [phase_key |-> phase_key, message |-> message]
       IN  IF ~tracker.SHOW_PROGRESS
           THEN /\ script' = Called("start_phase", args, NoExc)
                /\ UNCHANGED tracker
           ELSE IF phase_key \notin DOMAIN tracker.phases
           THEN /\ script' = Called("start_phase", args,
                                    Exc("ValueError", <<"Fase no reconocida: ", phase_key>>))
                /\ UNCHANGED tracker
           ELSE /\ tracker' = StartPhase(tracker, phase_key, message)
                /\ script' = Called("start_phase", args, NoExc)
  /\ UNCHANGED <<fields, call, unit, schema_analyzer>>

update_progress ==
  /\ script.calls < MaxCalls
  /\ \E progress \in Progresses, message \in Messages :
       LET args == [progress |-> progress, message |-> message]
       IN  /\ script' = Called("update_progress", args, NoExc)
           /\ IF ~tracker.SHOW_PROGRESS \/ tracker.current_phase_key = "None"
              THEN UNCHANGED tracker
              ELSE tracker' = UpdateProgress(tracker, progress, message)
  /\ UNCHANGED <<fields, call, unit, schema_analyzer>>

complete_phase ==
  /\ script.calls < MaxCalls
  /\ \E success \in BOOLEAN, message \in Messages, status \in {"None", "WARNING"} :
       LET args == [success |-> success, message |-> message, status |-> status]
       IN  /\ script' = Called("complete_phase", args, NoExc)
           /\ IF ~tracker.SHOW_PROGRESS \/ tracker.current_phase_key = "None"
              THEN UNCHANGED tracker
              ELSE tracker' = CompletePhase(tracker, success, message, status)
  /\ UNCHANGED <<fields, call, unit, schema_analyzer>>

ProgressNext ==
  \/ start_phase
  \/ update_progress
  \/ complete_phase

SpecProgress == ProgressInit /\ [][ProgressNext]_vars

\* ------------------------------------------------------------------------
\* Properties of generate and of the setters
\* ------------------------------------------------------------------------

\* caller c has just taken a step of its own
Stepped(c) == call'[c] # call[c]

\* C1: generate on an orchestrator that holds no provider fails with
\* ProviderError, and with a provider but no schema fails with SchemaError;
\* the step that fails invokes no provider and leaves every field as it was.
C1_EntryFailure ==
  [][\A c \in Calls :
       (At(c, "entry") /\ Stepped(c)) =>
         /\ provider = NoProvider =>
               /\ call'[c].pc = "raised"
               /\ call'[c].error.kind = "ProviderError"
               /\ call'[c].sent = <<>>
               /\ fields' = fields
         /\ (provider # NoProvider /\ schema = None) =>
               /\ call'[c].pc = "raised"
               /\ call'[c].error.kind = "SchemaError"
               /\ call'[c].sent = <<>>
               /\ fields' = fields]_vars

\* a call with a provider and no schema has failed, on an orchestrator whose
\* template had been replaced
C1_Witness ==
  /\ call[1].op = "generate" /\ call[1].pc = "raised"
  /\ call[1].error.kind = "SchemaError"
  /\ provider # NoProvider /\ schema = None
  /\ call[1].sent = <<>> /\ call[1].path = <<>>
  /\ prompt_template # DefaultTemplate

\* C2: whenever the provider's generate raises, whatever the kind of the
\* exception, generate fails with ProviderError and the message holds the
\* provider's message.
C2_ProviderFailure ==
  \A c \in Calls :
    (call[c].pc = "raised" /\ call[c].origin = "provider") =>
      /\ call[c].error.kind = "ProviderError"
      /\ InMessage(call[c].error.msg, call[c].fault.msg)

StepNames ==
  {"entry", "prompting", "awaiting", "parsing", "formatting", "validating",
   "save_sql", "save_explanation", "save_time", "assemble"}

FiveFields == {"query", "sql", "explanation", "validation", "generation_time"}

\* C3: a generate call ends by returning a result with all five fields, or by
\* raising one of ProviderError, SchemaError, GenerationError whose message
\* holds the message of the fault; until then it has neither result nor
\* error and stands at one of the steps of generate, none of which waits for
\* anything but its turn.
C3_Outcome ==
  \A c \in Calls :
    call[c].op = "generate" =>
      /\ call[c].pc = "returned" =>
            /\ call[c].error = NoExc
            /\ Len(call[c].result) = 1
            /\ DOMAIN call[c].result[1] = FiveFields
      /\ call[c].pc = "raised" =>
            /\ call[c].result = <<>>
            /\ call[c].error.kind \in {"ProviderError", "SchemaError", "GenerationError"}
            /\ InMessage(call[c].error.msg, call[c].fault.msg)
      /\ call[c].pc \notin {"returned", "raised"} =>
            /\ call[c].result = <<>>
            /\ call[c].error = NoExc
            /\ call[c].pc \in StepNames

\* the provider raised a TimeoutError and generate raised GenerationError
C3_Witness ==
  /\ call[1].pc = "raised"
  /\ call[1].fault.kind = "TimeoutError"
  /\ call[1].error.kind = "GenerationError"

\* C4: _extract_sql gives the empty string when no strategy matches, and
\* when the extracted SQL is empty generate raises GenerationError from the
\* parsing step: no formatting, no validation, no result, no field written.
C4_EmptyExtraction ==
  [][\A c \in Calls :
       (At(c, "parsing") /\ Stepped(c) /\ ~TextRaises(call[c].ai_response[1])) =>
         LET text == ResponseText(call[c].ai_response[1])
         IN  /\ NoStrategyMatches(text) => _extract_sql(text) = <<>>
             /\ _extract_sql(text) = <<>> =>
                   /\ call'[c].pc = "raised"
                   /\ call'[c].error.kind = "GenerationError"
                   /\ InMessage(call'[c].error.msg, NoSqlError.msg)
                   /\ call'[c].result = <<>>
                   /\ call'[c].path = call[c].path
                   /\ fields' = fields]_vars

\* a response in which no strategy finds SQL has ended the call
C4_Witness ==
  /\ call[1].pc = "raised" /\ call[1].origin = "parsing"
  /\ call[1].fault = NoSqlError
  /\ ResponseText(call[1].ai_response[1]) = TextNoSql
  /\ NoStrategyMatches(TextNoSql)

\* C5: set_provider and set_schema return true and replace what is held
\* exactly when the argument is valid (a provider with a callable generate; a
\* mapping with the keys tables and relationships and a non-empty table
\* set); otherwise they return false and provider and schema stay.
C5_Setters ==
  [][\A c \in Calls :
       /\ (call[c].pc = "idle" /\ call'[c].op = "set_provider") =>
             LET p == call'[c].parg
             IN  /\ schema' = schema
                 /\ IF p.generate
                    THEN call'[c].ret = TRUE /\ provider' = p
                    ELSE call'[c].ret = FALSE /\ provider' = provider
       /\ (call[c].pc = "idle" /\ call'[c].op = "set_schema") =>
             LET s == call'[c].sarg
             IN  /\ provider' = provider
                 /\ IF /\ s.kind = "dict"
                       /\ {"tables", "relationships"} \subseteq s.keys
                       /\ s.tables # {}
                    THEN call'[c].ret = TRUE /\ schema' = s
                    ELSE call'[c].ret = FALSE /\ schema' = schema]_vars

\* set_schema has refused a schema without tables and the one held stays
C5_Witness ==
  /\ call[1].op = "set_schema" /\ call[1].pc = "returned"
  /\ call[1].sarg = NoTables /\ call[1].ret = FALSE
  /\ schema = ValidSchema2

\* C6: set_prompt_template with a template that lacks {query} or {schema}
\* leaves the active template, which the next prompt is built from; with
\* both it replaces the template; reset_prompt_template restores the default.
C6_Template ==
  [][\A c \in Calls :
       /\ (call[c].pc = "idle" /\ call'[c].op = "set_prompt_template") =>
             LET t == call'[c].targ
             IN  IF InTemplate(t, "{query}") /\ InTemplate(t, "{schema}")
                 THEN prompt_template' = t
                 ELSE prompt_template' = prompt_template
       /\ (call[c].pc = "idle" /\ call'[c].op = "reset_prompt_template") =>
             prompt_template' = DefaultTemplate
       /\ (At(c, "prompting") /\ call'[c].pc = "awaiting") =>
             call'[c].prompt[1].template = prompt_template]_vars

\* a template without {query} was refused while a custom template was active
C6_Witness ==
  /\ call[1].op = "set_prompt_template" /\ call[1].pc = "returned"
  /\ call[1].targ = <<"{schema}">>
  /\ prompt_template = <<"{query}", "{schema}">>

\* C7: with two generate calls in flight and provider and schema fixed, the
\* result a call returns is made of that call's own question, of its own
\* provider response and of its own elapsed time.
C7_OwnResult ==
  \A c \in Calls :
    At(c, "returned") =>
      LET r == call[c].result[1]
          text == ResponseText(call[c].ai_response[1])
      IN  /\ r.query = call[c].query
          /\ r.sql = _format_sql(_extract_sql(text))
          /\ r.explanation = _extract_explanation(text)
          /\ r.validation = _validate_sql(r.sql, schema)
          /\ r.generation_time = call[c].elapsed

\* the steps of a generate call that returns, in their order
StepsToDone ==
  <<"prompting", "awaiting", "parsing", "formatting", "validating",
    "save_sql", "save_explanation", "save_time", "assemble", "returned">>

\* C22: a generate call invokes the provider at most once, with the prompt it
\* built, and not at all when it fails at the entry checks or while building
\* the prompt; a call that returns went through prompt building, provider
\* call, parsing, formatting and validation in that order.
C22_ProviderOnce ==
  \A c \in Calls :
    call[c].op = "generate" =>
      /\ Len(call[c].sent) <= 1
      /\ call[c].sent # <<>> =>
           /\ call[c].prompt # <<>>
           /\ call[c].sent[1].prompt = call[c].prompt[1]
           /\ SubSeq(call[c].path, 1, 2) = <<"prompting", "awaiting">>
      /\ (call[c].pc = "raised" /\ call[c].origin \in {"entry", "prompting"}) =>
           call[c].sent = <<>>
      /\ call[c].pc = "returned" =>
           /\ call[c].path = StepsToDone
           /\ Len(call[c].sent) = 1

\* a call that failed after its one invocation of the provider, which raised
C22_Witness ==
  /\ call[1].op = "generate"
  /\ call[1].pc = "raised"
  /\ call[1].origin = "provider"
  /\ Len(call[1].sent) = 1

\* generate has returned a result to caller c
Generated(c) == call[c].op = "generate" /\ call[c].pc = "returned"

ValidationOff(c) ==
  /\ "validate_sql" \in DOMAIN call[c].options
  /\ call[c].options.validate_sql = FALSE

\* C17: with the option validate_sql false the result's validation is
\* {valid: true, errors: []} whatever the SQL; with it true or absent the
\* validation is the validator's verdict on the SQL the result carries.
C17_ValidateOption ==
  \A c \in Calls :
    Generated(c) =>
      LET result == call[c].result[1]
      IN  IF ValidationOff(c)
          THEN result.validation = [valid |-> TRUE, errors |-> <<>>]
          ELSE result.validation = _validate_sql(result.sql, schema)

\* a result whose SQL the validator rejects, returned with validation off
C17_Witness ==
  /\ Generated(1)
  /\ ValidationOff(1)
  /\ ~_validate_sql(call[1].result[1].sql, schema).valid
  /\ call[1].result[1].validation.valid

\* C27: the remembered statement, explanation and time are those of the call
\* that set the remembered query: when a generate call has failed, the
\* remembered query is what it was before the call, and when it has returned,
\* the four remembered values are the query, the statement, the explanation
\* and the time of that call.
C27_Remembered ==
  call[1].op = "generate" =>
    /\ call[1].pc = "raised" => last_query = call[1].before
    /\ call[1].pc = "returned" =>
         remembered = <<call[1].query, call[1].generated_sql,
                        call[1].explanation, call[1].elapsed>>

\* C28: the schema held is None or one that set_schema accepts, the provider
\* held is None or one that set_provider accepts, whether the constructor or
\* a setter installed it; and no generate call fails while it prepares the
\* prompt or validates the statement because the schema is malformed.
C28_WellFormed ==
  /\ schema = None \/ SchemaAccepted(schema)
  /\ provider = NoProvider \/ ProviderAccepted(provider)
  /\ \A c \in Calls :
       (call[c].op = "generate" /\ call[c].pc = "raised") =>
         /\ call[c].origin # "validating"
         /\ call[c].origin = "prompting" => _get_schema_summary(schema).ok

\* ------------------------------------------------------------------------
\* Properties of _validate_sql
\* ------------------------------------------------------------------------

SelectAllFromOrders == <<"S","E","L","E","C","T"," ","*"," ","F","R","O","M"," ","o","r","d","e","r","s">>

\* _validate_sql has run on the statement of unit
Validated == unit.fn = "_validate_sql"

\* the schema held has a tables entry
SchemaSupplied == "tables" \in schema.keys

\* the places of s where an identifier begins that directly follows the word
\* FROM or the word JOIN, in any letter case
Following(s) ==
  {k \in 1..Len(s) :
     /\ IsIdentChar(s[k])
     /\ \E i \in 1..(k - 5) :
          /\ WordBoundary(s, i)
          /\ MatchAtCI(s, kw_FROM, i) \/ MatchAtCI(s, kw_JOIN, i)
          /\ \A j \in (i + 4)..(k - 1) : IsWs(s[j])}

\* the identifier that begins at k
NameAt(s, k) == SubSeq(s, k, IdentEnd(s, k) - 1)

\* C8: under a schema with tables, SELECT * FROM orders is valid iff orders
\* is among the tables, and without it the only error names orders; every
\* identifier that follows FROM or JOIN and is no table gives one error
\* naming it per place it stands at, a table gives none, and no error names
\* anything else.
C8_TableCheck ==
  (Validated /\ SchemaSupplied) =>
    LET s == unit.arg.text
        r == unit.ret[1]
        named(n) == {k \in DOMAIN r.errors : r.errors[k] = ErrTable(n)}
        at(n) == {k \in Following(s) : NameAt(s, k) = n}
        names == {NameAt(s, k) : k \in Following(s)}
    IN  /\ s = SelectAllFromOrders => (r.valid <=> t_orders \in schema.tables)
        /\ (s = SelectAllFromOrders /\ t_orders \notin schema.tables) =>
              r.errors = <<ErrTable(t_orders)>>
        /\ \A n \in names :
              Cardinality(named(n)) =
                IF n \in schema.tables THEN 0 ELSE Cardinality(at(n))
        /\ \A k \in DOMAIN r.errors :
              r.errors[k].text = ErrTable(<<>>).text => r.errors[k].name \in names

\* orders is a table and ghosts, joined to it, is not: one error, naming ghosts
C8_Witness ==
  /\ Validated
  /\ schema = ValidSchema1
  /\ unit.arg.text = <<"S","E","L","E","C","T"," ","*"," ","F","R","O","M"," ","o","r","d","e","r","s"," ","o"," ","L","E","F","T"," ","J","O","I","N"," ","g","h","o","s","t","s"," ","g"," ","U","S","I","N","G"," ","(","i","d",")">>
  /\ unit.ret[1].errors = <<ErrTable(t_ghosts)>>

\* the first word of s is SELECT, in any letter case
BeginsWithSelect(s) ==
  MatchAtCI(strip(s), kw_SELECT, 1) /\ WordBoundary(strip(s), 7)

\* s has the word FROM, in any letter case
HasFromClause(s) ==
  \E i \in 1..Len(s) :
    MatchAtCI(s, kw_FROM, i) /\ WordBoundary(s, i) /\ WordBoundary(s, i + 4)

\* C9: each error is in the result iff its check fails, whatever the other
\* checks find: the parenthesis error iff the counts of ( and ) differ, the
\* missing-FROM error iff the statement begins with SELECT and has no FROM
\* clause, each quote error iff the count of that quote is odd, a table error
\* iff a schema is supplied and an identifier after FROM or JOIN is no table;
\* valid iff there is no error.
C9_IndependentChecks ==
  Validated =>
    LET s == unit.arg.text
        r == unit.ret[1]
        E == Range(r.errors)
    IN  /\ (ErrParens \in E) <=> (count(s, "(") # count(s, ")"))
        /\ (ErrFrom \in E) <=> (BeginsWithSelect(s) /\ ~HasFromClause(s))
        /\ (ErrSingle \in E) <=> (count(s, "'") % 2 = 1)
        /\ (ErrDouble \in E) <=> (count(s, "\"") % 2 = 1)
        /\ (\E e \in E : e.text = ErrTable(<<>>).text) <=>
              (SchemaSupplied /\ \E k \in Following(s) : NameAt(s, k) \notin schema.tables)
        /\ r.valid <=> (r.errors = <<>>)

\* C10: a well-formed statement that refers only to tables of the schema is
\* found valid, with no error.
C10_NeverRejectsValid ==
  (Validated /\ SchemaSupplied /\ unit.arg.wellformed
     /\ unit.arg.refs \subseteq schema.tables) =>
    /\ unit.ret[1].valid
    /\ unit.ret[1].errors = <<>>

\* the word FROM, in any letter case, stands at i outside a string literal
FromClauseAt(s, i) ==
  /\ MatchAtCI(s, kw_FROM, i)
  /\ WordBoundary(s, i)
  /\ WordBoundary(s, i + 4)
  /\ count(SubSeq(s, 1, i - 1), "'") % 2 = 0

\* C23: a statement that begins with SELECT, in any letter case, gets the
\* missing-FROM error iff it has no FROM clause, the letters "from" inside an
\* identifier or a string literal not being one; a statement that does not
\* begin with SELECT never gets it.
C23_MissingFrom ==
  Validated =>
    LET s == unit.arg.text
        E == Range(unit.ret[1].errors)
    IN  IF BeginsWithSelect(s)
        THEN (ErrFrom \in E) <=> ~(\E i \in 1..Len(s) : FromClauseAt(s, i))
        ELSE ErrFrom \notin E

\* ------------------------------------------------------------------------
\* Properties of the text functions
\* ------------------------------------------------------------------------

\* C11: formatting is idempotent: _format_sql applied to its own result gives
\* that result again.
C11_FormatIdempotent ==
  unit.fn = "_format_sql twice" => unit.ret[2] = unit.ret[1]

\* a statement up to whitespace and letter case
Normalised(s) == upper(SelectSeq(s, LAMBDA ch : ~IsWs(ch)))

\* C12: extracting again from the formatted extraction gives the statement
\* first extracted, up to whitespace and letter case.
C12_RoundTrip ==
  unit.fn = "_extract_sql again" =>
    Normalised(unit.ret[3]) = Normalised(unit.ret[1])

\* C13: from a response with a fenced block tagged sql followed by a marker
\* and an explanation, _extract_sql returns the block's content trimmed and
\* _extract_explanation the text after the marker, up to the next fence or the
\* end of the text, trimmed.
C13_MarkedResponse ==
  unit.arg.kind = "marked" =>
    /\ unit.fn \in {"_extract_sql", "_extract_sql again"} =>
         unit.ret[1] = unit.arg.content
    /\ unit.fn = "_extract_explanation" => unit.ret[1] = unit.arg.after

\* the explanation of a marked response that has another fenced block after it
C13_Witness ==
  /\ unit.arg.kind = "marked"
  /\ unit.fn = "_extract_explanation"
  /\ Contains(unit.arg.text, <<"f","i","l","t","r","a"," ","u","s","u","a","r","i","o","s",BT,BT,BT>>)
  /\ unit.ret[1] = <<"f","i","l","t","r","a"," ","u","s","u","a","r","i","o","s">>

\* ------------------------------------------------------------------------
\* Properties of the schema analysis
\* ------------------------------------------------------------------------

Analyzed == analysis.pc = "done"

\* the foreign keys of the analyzed tables, each with its table
AnalyzedForeignKeys ==
  UNION {{[table |-> t, fk |-> analyzer.metadata[t].foreign_keys[i]] :
            i \in DOMAIN analyzer.metadata[t].foreign_keys} :
           t \in analysis.tables_to_analyze}

\* the column is in the primary key of the database's table
InPrimaryKey(table, column) ==
  \E i \in DOMAIN analyzer.metadata[table].columns :
    /\ analyzer.metadata[table].columns[i].name = column
    /\ analyzer.metadata[table].columns[i].primary_key

\* the column is covered by a unique index of the database's table
CoveredByUniqueIndex(table, column) ==
  \E i \in DOMAIN analyzer.metadata[table].indexes :
    /\ analyzer.metadata[table].indexes[i].unique
    /\ column \in Range(analyzer.metadata[table].indexes[i].columns)

\* the relationships derived from foreign key f of an analyzed table
DerivedFrom(f) ==
  {r \in Range(analyzer.schema_data.relationships) :
     /\ r.table_from = f.table
     /\ r.column_from = f.fk.column
     /\ r.table_to = f.fk.references_table
     /\ r.column_to = f.fk.references_column}

\* The foreign keys into analyzed tables have one relationship each, of the
\* type the rule gives when Unique(table, column) says which columns are unique.
CardinalityRule(Unique(_, _)) ==
  \A f \in AnalyzedForeignKeys :
    f.fk.references_table \in analysis.tables_to_analyze =>
      LET source == Unique(f.table, f.fk.column)
          target == Unique(f.fk.references_table, f.fk.references_column)
      IN  /\ DerivedFrom(f) # {}
          /\ \A r \in DerivedFrom(f) :
               /\ r.relationship_type = "one_to_one" <=> source /\ target
               /\ r.relationship_type = "one_to_many" <=> source /\ ~target
               /\ r.relationship_type = "many_to_one" <=> ~source

UniqueInDatabase(table, column) ==
  InPrimaryKey(table, column) \/ CoveredByUniqueIndex(table, column)

\* unique indexes count only when the analysis reads indexes
UniqueAsAnalyzed(table, column) ==
  \/ InPrimaryKey(table, column)
  \/ analysis.depth # "basic" /\ CoveredByUniqueIndex(table, column)

\* C14 as stated: after an analysis, the type of every relationship into an
\* analyzed table follows the rule, a column being unique when it is in its
\* table's primary key or covered by a unique index.
C14_Cardinality == Analyzed => CardinalityRule(UniqueInDatabase)

\* C14 amended: the same, where a unique index makes a column unique only at
\* depth "standard" or "full"; at depth "basic" only primary keys do.
C14_CardinalityAsAnalyzed == Analyzed => CardinalityRule(UniqueAsAnalyzed)

\* orders.customer_id, under a unique index, references the primary key
\* customers.id, and the analysis is one of depth "basic"
C14_Witness ==
  /\ Analyzed
  /\ analysis.depth = "basic"
  /\ CoveredByUniqueIndex("orders", "customer_id")
  /\ InPrimaryKey("customers", "id")
  /\ \E r \in Range(analyzer.schema_data.relationships) :
       /\ r.table_from = "orders" /\ r.column_from = "customer_id"
       /\ r.table_to = "customers" /\ r.column_to = "id"
       /\ r.relationship_type = "many_to_one"

\* the tables of the database that pass the filters of the call
FilteredTables ==
  {t \in DOMAIN analyzer.metadata :
     /\ analysis.include_tables = {} \/ t \in analysis.include_tables
     /\ t \notin analysis.exclude_tables}

\* the number of columns the database has in the tables of S
RECURSIVE ColumnsIn(_)
ColumnsIn(S) ==
  IF S = {} THEN 0
  ELSE LET t == CHOOSE x \in S : TRUE
       IN  Cardinality({column.name : column \in Range(analyzer.metadata[t].columns)})
           + ColumnsIn(S \ {t})

\* C15: after a completed analysis, stats.tables_count is the number of
\* entries of schema.tables, which are the tables that pass the filters, and
\* stats.columns_count is the number of columns of those tables.
C15_Counts ==
  Analyzed =>
    /\ DOMAIN analyzer.schema_data.tables = FilteredTables
    /\ analyzer.schema_data.stats.tables_count =
         Cardinality(DOMAIN analyzer.schema_data.tables)
    /\ analyzer.schema_data.stats.columns_count = ColumnsIn(FilteredTables)

\* an analysis where both filters removed tables
C15_Witness ==
  /\ Analyzed
  /\ analysis.include_tables = {"orders", "customers", "missing"}
  /\ analysis.exclude_tables = {"customers"}
  /\ analyzer.schema_data.stats.tables_count = 1
  /\ analyzer.schema_data.stats.columns_count = 3

\* C16: analyze fails only with typed errors: a connection-kind error when
\* there is neither connection nor engine, a permission-kind error when the
\* fault is one of insufficient privilege, a schema-kind error for every
\* other fault.
C16_TypedErrors ==
  analysis.pc = "raised" =>
    /\ analysis.error.kind \in {"ConnectionError", "PermissionError", "SchemaError"}
    /\ analysis.fault = Reflected => analysis.error.kind = "ConnectionError"
    /\ analysis.fault \in Faults /\ analysis.fault.privilege =>
         analysis.error.kind = "PermissionError"
    /\ analysis.fault \in Faults /\ ~analysis.fault.privilege =>
         analysis.error.kind = "SchemaError"

\* the strategies in their order of priority, each with what it finds
Strategies(response) ==
  <<sql_marker_1(response), sql_marker_2(response), sql_marker_3(response),
    sql_marker_4(response), sql_marker_5(response),
    sql_command_search(response)>>

\* C18: _extract_sql returns what the first strategy that matches finds,
\* trimmed, in the order: sql-tagged fence, untagged fence starting with a
\* keyword, "SQL:" plus fence, "SQL Query:" plus fence, "SQL:" plus inline
\* statement, bare keyword search; wherever in the text the matches are.
C18_Priority ==
  unit.fn = "_extract_sql" =>
    LET s == Strategies(unit.arg.text)
    IN  \A n \in DOMAIN s :
          (s[n].ok /\ \A k \in 1..(n - 1) : ~s[k].ok) =>
            unit.ret[1] = strip(s[n].val)

\* the tagged fence wins over a "SQL:" inline statement that comes before it
C18_Witness ==
  /\ unit.fn = "_extract_sql"
  /\ sql_marker_1(unit.arg.text).ok
  /\ sql_marker_5(unit.arg.text).ok
  /\ find(unit.arg.text, LabelSQL, 1) # 0
  /\ find(unit.arg.text, LabelSQL, 1) < find(unit.arg.text, FenceSql, 1)
  /\ unit.ret[1] = <<"S","E","L","E","C","T"," ","i","d"," ","F","R","O","M"," ","u","s","e","r","s",";">>

\* only the bare keyword search finds something in the response
OnlyBareKeyword(response) ==
  /\ \A n \in DOMAIN sql_markers(response) : ~sql_markers(response)[n].ok
  /\ sql_command_search(response).ok

\* from the earliest occurrence of a keyword phrase through the next ";", or
\* to the end of the text
FromEarliestKeyword(response) ==
  LET starts == {find(response, sql_commands[n], 1) : n \in DOMAIN sql_commands} \ {0}
      start == Min(starts)
      stop == find(response, Semicolon, start)
  IN  SubSeq(response, start, IF stop = 0 THEN Len(response) ELSE stop)

\* C19: when only the bare keyword strategy applies, _extract_sql returns the
\* text from the earliest occurrence of any keyword phrase through the next
\* statement terminator, or to the end of the text; statements with qualified
\* names or several keyword phrases are returned whole.
C19_BareKeyword ==
  (unit.fn = "_extract_sql" /\ OnlyBareKeyword(unit.arg.text)) =>
    unit.ret[1] = strip(FromEarliestKeyword(unit.arg.text))

NoExplanationMarker(response) ==
  \A n \in DOMAIN explanation_markers :
    ~Contains(response, explanation_markers[n])

\* the response without its fenced blocks and without the extracted SQL
Remainder(response) ==
  LET sql == _extract_sql(response)
      unfenced == RemoveFenced(response)
  IN  strip(IF sql = <<>> THEN unfenced ELSE replace(unfenced, sql, <<>>))

\* C20: without an explanation marker, _extract_explanation returns the
\* response with the fenced blocks and the extracted SQL removed, trimmed, and
\* the entire response when that remainder is empty; so the explanation is
\* empty only if the response is blank.
C20_Fallback ==
  (unit.fn = "_extract_explanation" /\ NoExplanationMarker(unit.arg.text)) =>
    /\ Remainder(unit.arg.text) # <<>> =>
         unit.ret[1] = Remainder(unit.arg.text)
    /\ Remainder(unit.arg.text) = <<>> =>
         unit.ret[1] \in {unit.arg.text, strip(unit.arg.text)}
    /\ unit.ret[1] = <<>> => strip(unit.arg.text) = <<>>

\* C21: a foreign key whose referenced table is not in the analyzed set gives
\* a relationship of type many_to_one, whether or not its source column is
\* unique.
C21_AbsentTable ==
  Analyzed =>
    \A f \in AnalyzedForeignKeys :
      f.fk.references_table \notin analysis.tables_to_analyze =>
        /\ DerivedFrom(f) # {}
        /\ \A r \in DerivedFrom(f) : r.relationship_type = "many_to_one"

\* the k-th of the places in P, counted from the left
Nth(P, k) == CHOOSE i \in P : Cardinality({j \in P : j <= i}) = k

\* the words of s (maximal runs of word characters), from left to right
Words(s) ==
  LET starts == {i \in 1..Len(s) :
                   IsWord(s[i]) /\ (i = 1 \/ ~IsWord(s[i - 1]))}
      stop(i) == Min({j \in i..Len(s) : j = Len(s) \/ ~IsWord(s[j + 1])})
  IN  AsSeq([k \in 1..Cardinality(starts) |->
               SubSeq(s, Nth(starts, k), stop(Nth(starts, k)))])

\* the words the keywords of _format_sql are made of
KeywordWords == UNION {Range(Words(keywords[n])) : n \in DOMAIN keywords}

\* the contents of the string literals of s, from left to right
Literals(s) ==
  LET quotes == {i \in 1..Len(s) : s[i] = "'"}
  IN  AsSeq([k \in 1..(Cardinality(quotes) \div 2) |->
               SubSeq(s, Nth(quotes, 2 * k - 1) + 1, Nth(quotes, 2 * k) - 1)])

\* C24: _format_sql changes only the letter case of keywords and whitespace:
\* the words stay in their order, a word that is no keyword stays as it is
\* (an identifier that contains a keyword, too), and the contents of the
\* string literals stay as they are.
C24_FormatPreserves ==
  unit.fn = "_format_sql" =>
    LET before == Words(unit.arg.text)
        after == Words(unit.ret[1])
    IN  /\ Normalised(unit.ret[1]) = Normalised(unit.arg.text)
        /\ Len(after) = Len(before)
        /\ \A k \in DOMAIN before :
             /\ upper(after[k]) = upper(before[k])
             /\ upper(before[k]) \notin KeywordWords => after[k] = before[k]
        /\ Literals(unit.ret[1]) = Literals(unit.arg.text)

\* the places of text s where the clause keyword newline_after[n] stands as
\* whole words, whatever the letter case
ClauseAt(s, n) ==
  {i \in 1..Len(s) : MatchWord(s, newline_after[n], i, TRUE)}

\* the occurrence of newline_after[n] at i is part of a longer clause keyword
\* (the JOIN of LEFT JOIN, the FROM of DELETE FROM)
InLongerClause(s, n, i) ==
  \E m \in DOMAIN newline_after :
    /\ Len(newline_after[m]) > Len(newline_after[n])
    /\ \E j \in ClauseAt(s, m) :
         j <= i /\ i + Len(newline_after[n]) <= j + Len(newline_after[m])

\* index i is where a line of s begins: the first line, or an indented one
BeginsLine(s, i) ==
  \/ i = 1
  \/ i > Len(Indent) + 1 /\ SubSeq(s, i - Len(Indent) - 1, i - 1) = <<"\n">> \o Indent

\* every occurrence of a clause keyword in the formatted text begins a line
ClausesBeginLines ==
  \A n \in DOMAIN newline_after :
    \A i \in ClauseAt(unit.ret[1], n) :
      InLongerClause(unit.ret[1], n, i) \/ BeginsLine(unit.ret[1], i)

\* a clause keyword of the statement is still in one piece in the formatted text
ClausesIntact ==
  \A n \in DOMAIN newline_after :
    Cardinality(ClauseAt(unit.ret[1], n)) = Cardinality(ClauseAt(strip(unit.arg.text), n))

\* every line after the first begins with the indent and nothing more
LinesIndented ==
  LET lines == split_lines(unit.ret[1])
  IN  \A k \in 2..Len(lines) :
        /\ Len(lines[k]) >= Len(Indent)
        /\ SubSeq(lines[k], 1, Len(Indent)) = Indent
        /\ Len(lines[k]) > Len(Indent) => ~IsWs(lines[k][Len(Indent) + 1])

\* C25: in the text _format_sql returns, every clause keyword begins a line,
\* the multi-word ones in one piece, and every line after the first begins
\* with exactly the four-space indent.
C25_ClauseLines ==
  unit.fn = "_format_sql" =>
    ClausesBeginLines /\ ClausesIntact /\ LinesIndented

\* ------------------------------------------------------------------------
\* Properties of the progress tracker
\* ------------------------------------------------------------------------

\* the phase keys scripts/test_core.py starts
TestCoreKeys == {"db_connection", "schema_analysis", "sql_generation"}

\* C26: with the progress display on, start_phase on a key that
\* scripts/test_core.py starts does not raise and makes that phase the
\* current one, and the complete_phase(True, message) that follows leaves
\* the phase in status SUCCESS with progress 100.
C26_TestCorePhases ==
  tracker.SHOW_PROGRESS =>
    /\ (script.op = "start_phase" /\ script.args.phase_key \in TestCoreKeys) =>
         /\ script.error = NoExc
         /\ tracker.current_phase_key = script.args.phase_key
    /\ ( /\ script.op = "complete_phase"
         /\ script.args.success
         /\ script.args.status = "None"
         /\ script.args.message # ""
         /\ tracker.current_phase_key \in TestCoreKeys ) =>
         /\ script.error = NoExc
         /\ tracker.phases[tracker.current_phase_key].status = "SUCCESS"
         /\ tracker.phases[tracker.current_phase_key].progress = 100

\* C30: after any calls of start_phase, update_progress and complete_phase
\* every phase's progress is within 0..100, and a phase in status SUCCESS or
\* ERROR has progress 100.
C30_CompletedAtHundred ==
  \A k \in DOMAIN tracker.phases :
    /\ tracker.phases[k].progress \in 0..100
    /\ is_completed(tracker.phases[k]) => tracker.phases[k].progress = 100

\* C29: the statement _extract_sql returns holds neither a code-fence
\* delimiter nor the label "SQL:".
C29_NoFenceNoLabel ==
  unit.fn = "_extract_sql" =>
    /\ ~Contains(unit.ret[1], Fence)
    /\ ~Contains(unit.ret[1], LabelSQL)
====
